---- MODULE Spec2Model ----
(***************************************************************************)
(* Verification model of the dynamic-feedback voice client: the audio      *)
(* chunk ingestion, buffering, ordered playback and the lifecycle glue.    *)
(*                                                                         *)
(* Three pipelines of the repository are modelled, each with its own       *)
(* specification over the one set of variables:                            *)
(*   SpecASS : useSocket.ts 'realtime-event' ingestion feeding the RxJS    *)
(*             AudioStreamService (services/audioStreamService.ts) and the *)
(*             useAudioStream hook that drives the same service;           *)
(*   SpecRVC : the useRealtimeVoiceChat hook's own batching engine and     *)
(*             playback queue (handleRealtimeEvent and friends);           *)
(*   SpecNav : the zustand store, PDFViewer narration/navigation and the   *)
(*             useSocket control functions on top of the service.          *)
(* Further specifications cover single parts: SpecRVCErr, SpecUAS,         *)
(* SpecMime, SpecAdv, SpecRec (the record button), SpecReg (the socket's   *)
(* handler registration), SpecPage (the PDFViewer's page-change effects),  *)
(* SpecStore and SpecMsg (the store's page actions and transcript).        *)
(***************************************************************************)
EXTENDS Integers, Sequences, FiniteSets, TLC

(***************************************************************************)
(* Bounds of the model.                                                    *)
(***************************************************************************)
MaxChunks == 2
MaxElems == 5
MaxDeltas == 6
MaxPages == 2
MaxRequests == 2
MaxIrregular == 1
MaxPayload == 4
MaxHooks == 2
MaxHandlers == 3
MaxTimers == 3
MaxNavRequests == 3
MaxRenders == 3
MaxMessages == 3
MaxText == 3

(***************************************************************************)
(* Program constants.                                                      *)
(***************************************************************************)
MIN_CHUNK_LEN == 10

VARIABLES
  \* ---- AudioStreamService (services/audioStreamService.ts) ----
  window,                \* chunks held by bufferTime(bufferingTime), not yet emitted
  activeAudioElements,   \* the queue of Audio elements; the head is the playing one
  playbackState,         \* playbackStateSubject.value
  isProcessingComplete,  \* AudioStreamService.isProcessingComplete
  \* ---- the browser's side of the Audio elements ----
  nextElem,              \* identity of the next Audio element created
  playReq,               \* elements with a play() promise outstanding
  playing,               \* elements currently producing sound
  hooks,                 \* elements held by an armed one-shot 'click' playOnce listener
  gesture,               \* the document has seen a user gesture (autoplay allowed)
  \* ---- useSocket.ts ingestion ----
  nextChunk,             \* arrival sequence number of the next chunk event
  conv,                  \* byte-array chunks inside processBinaryAudioData (FileReader)
  \* ---- history ----
  played,                \* chunk ids in the order their elements started to sound
  endedChunks,           \* chunk ids of which an element has played to its end
  stopAt,                \* arrival number of the next chunk at the last stop/reset
  quiet,                 \* no event has arrived from outside since the last reset
  lastStop,              \* the stop/reset call made since the last event from outside
  \* ---- zustand store (store/useStore.ts), audioState and pdfState ----
  isRecording, isProcessing, isNarrating, isNarrationPaused,
  narrationCurrentPage, isPlayingAudio, pageNum, pageCount,
  \* ---- useSocket hook state ----
  isProcessingPage,
  \* ---- useRealtimeVoiceChat (unnamed/part_000): refs and state ----
  accumulatedChunks,     \* accumulatedChunks.current
  audioBufferChunks,     \* audioBufferChunks.current
  audioChunksProcessed,  \* audioChunksProcessed.current
  isProcessingCompleteRef, \* isProcessingComplete.current of the hook
  lastChunkTime,         \* lastChunkTime.current: 0, or 1 for a time stamp
  bufferingTimeoutRef,   \* the 300 ms flush timer is armed
  currentAudioRef,       \* currentAudioRef.current, NoAudio for null
  audioPlaybackQueue,    \* audioPlaybackQueue.current
  isStreaming,           \* the hook's isStreaming state
  renderedStreaming,     \* the isStreaming value the mounted effect was run with
  nextAudio,             \* identity of the next Audio element the hook creates
  rvcPlayReq,            \* hook elements with a play() promise outstanding
  rvcPlaying,            \* hook elements currently producing sound
  \* ---- the server's side of a response ----
  respPhase,             \* "idle", "open" (created), "audioDone"
  nextDelta,             \* arrival number of the next response.audio.delta
  irregularDeltas,       \* undersized or padded string deltas received so far
  \* ---- history of the batching engine ----
  flushedInStream,       \* a batch was flushed since the last response.created
  burst,                 \* accepted chunks arrived back-to-back on an empty buffer
  burstFlushes,          \* positions in the burst at which a flush happened
  burstFresh,            \* the burst began with audioChunksProcessed = 0
  \* ---- PDFViewer (components/PDFViewer.tsx, App.tsx) ----
  pdfDoc,                \* pdfState.pdfDoc is loaded
  startNarrationTimer,   \* the 100 ms setTimeout(startNarration) of a navigation is pending
  backupTimer,           \* the pending backup request timer: "none", "viewer", "app"
  emitted,               \* narration requests emitted on the socket so far
  \* ---- AudioRecorder (components/AudioRecorder.tsx) ----
  wasNarratingRef,       \* wasNarratingRef.current
  \* ---- useState cells of the hooks ----
  error,                 \* useRealtimeVoiceChat's error state is set
  \* ---- processBinaryAudioData (hooks/useSocket.ts) ----
  audioData,             \* the byte array handed to detectAudioMimeType
  mimeType,              \* the type it returned, "none" before the call
  \* ---- useAudioStream (unnamed/part_001) ----
  hasAudioData,          \* the hook's hasAudioData state
  renderedHasData,       \* the hasAudioData value the registered handlers closed over
  uasStreaming,          \* the hook's isStreaming state
  uasError,              \* the hook's error state: "none", "noData", "stream"
  gotData,               \* history: a chunk was accepted since the last stream boundary
  acceptedSinceReset,    \* history: a chunk was accepted since the last resetAudio
  \* ---- useSocket.ts 'page-audio-response' and its auto-advance ----
  pageConv,              \* page audio inside processBinaryAudioData, with its page
  autoTimers,            \* the live 5000 ms autoAdvanceTimeout timers
  autoAdvanceTimeoutRef, \* autoAdvanceTimeoutRef.current, 0 for null
  advanceRequests,       \* pages whose 500 ms request timer is pending
  \* ---- AudioRecorder's press-and-hold recording, useRealtimeVoiceChat's recorder ----
  buttonDown,            \* the record button is held
  pendingStarts,         \* startRecordingHandler invocations still awaiting
  isRecordingRef,        \* isRecordingRef.current
  renderedRecording,     \* the isRecording value the sync effect last ran with
  audioStreamRef,        \* audioStreamRef.current holds a microphone stream
  liveStreams,           \* microphone streams whose tracks were not stopped
  createEmitted,         \* 'create-response' requests emitted on the socket
  createWhileProcessing, \* history: store isProcessing when the last one was emitted
  \* ---- useSocket.ts: the shared socket and the mounted instances of the hook ----
  socketState,           \* globalSocket: "none", "connecting", "connected"
  listeners,             \* handlers registered on the socket, per inbound event name
  owner,                 \* the instance whose closures the socket's 'connect' handler holds
  mounted,               \* the instances of useSocket that are mounted
  socketReady,           \* each instance's socketReady state
  renderedReady,         \* the socketReady value each instance's effect last ran with
  \* ---- PDFViewer's page-change effects ----
  lastNarratedPage,      \* the lastNarratedPage state of the PDFViewer
  renderedDeps,          \* the dependency values the page-change effects last ran with
  pageTimers,            \* pending request timers armed by the effects, with their page
  \* ---- store/useStore.ts: the fields the other parts do not read ----
  forceRender,           \* pdfState.forceRender, the redraw counter of the canvas
  messages,              \* the transcript: a sequence of [text, type]
  lastCall               \* history: the last store call, its argument and the store before it

queueVars == <<activeAudioElements, nextElem, playReq, playing>>
svcVars == <<window, queueVars, playbackState, isProcessingComplete, hooks, gesture>>
playHist == <<played, endedChunks>>
histVars == <<playHist, stopAt, quiet, lastStop>>
ingVars == <<nextChunk, conv>>
narrVars == <<isRecording, isNarrating, isNarrationPaused, narrationCurrentPage,
              pageNum, pageCount>>
storeVars == <<narrVars, isProcessing, isPlayingAudio, isProcessingPage>>

refVars == <<accumulatedChunks, audioBufferChunks, audioChunksProcessed,
             isProcessingCompleteRef, lastChunkTime, bufferingTimeoutRef,
             currentAudioRef, audioPlaybackQueue, isStreaming, nextAudio,
             rvcPlayReq, rvcPlaying>>
burstVars == <<burst, burstFlushes, burstFresh>>
deltaVars == <<nextDelta, irregularDeltas>>
rvcVars == <<refVars, renderedStreaming, respPhase, deltaVars, flushedInStream, burstVars>>

mimeVars == <<audioData, mimeType>>
uasVars == <<hasAudioData, renderedHasData, uasStreaming, uasError, gotData,
             acceptedSinceReset>>
recVars == <<buttonDown, pendingStarts, isRecordingRef, renderedRecording, audioStreamRef,
            liveStreams, createEmitted, createWhileProcessing>>
regVars == <<socketState, listeners, owner, mounted, socketReady, renderedReady>>
pageVars == <<renderedDeps, pageTimers>>
viewerVars == <<lastNarratedPage>>
docVars == <<forceRender, messages, lastCall>>
appVars == <<recVars, regVars, pageVars, docVars>>
hookVars == <<error, mimeVars, uasVars, appVars>>
advVars == <<pageConv, autoTimers, autoAdvanceTimeoutRef, advanceRequests>>
navVars == <<pdfDoc, startNarrationTimer, backupTimer, emitted, wasNarratingRef,
             viewerVars, hookVars, advVars>>

vars == <<svcVars, histVars, ingVars, storeVars, rvcVars, navVars>>

(***************************************************************************)
(* Helpers on sequences.                                                   *)
(***************************************************************************)
RECURSIVE SeqFilter(_, _)
SeqFilter(s, keep) ==
  IF s = <<>> THEN <<>>
  ELSE IF Head(s).id \in keep THEN <<Head(s)>> \o SeqFilter(Tail(s), keep)
       ELSE SeqFilter(Tail(s), keep)

ElemIds(s) == {s[i].id : i \in DOMAIN s}

\* activeAudioElements.filter(el => el !== audio)
Without(s, id) == SeqFilter(s, ElemIds(s) \ {id})

(***************************************************************************)
(* Chunk payloads.  A chunk event carries a payload in one of two shapes;  *)
(* what the pipeline reads of it is its length and its leading signature.  *)
(***************************************************************************)
StringLens == {9, 10, 12}        \* characters of a string-shaped delta
ByteLens == {6, 9}               \* bytes of an array-shaped delta
Sigs == {"UklGR", "none"}        \* base64 of "RIFF", or no known signature

\* FileReader.readAsDataURL: n bytes become 4 * ceil(n / 3) base64 characters
B64Len(n) == 4 * ((n + 2) \div 3)

\* createAndQueueAudioElement's format detection on the base64 prefix
DetectFormat(sig) ==
  IF sig = "GkXf" THEN "audio/webm"
  ELSE IF sig = "UklGR" THEN "audio/wav"
  ELSE IF sig = "T2dnU" THEN "audio/ogg"
  ELSE "audio/mpeg"

\* the formats audio.onerror tries, in order, skipping the one already in src
RecoveryFormats(fmt) ==
  SelectSeq(<<"audio/mpeg", "audio/wav", "audio/aac">>, LAMBDA f : f # fmt)

(***************************************************************************)
(* AudioStreamService, as functions on the service's queue state           *)
(*   q = [els, pr, pl, ne]: activeAudioElements, outstanding play()        *)
(*   promises, sounding elements, next element identity.                   *)
(***************************************************************************)
QState == [els |-> activeAudioElements, pr |-> playReq, pl |-> playing, ne |-> nextElem]

SetQ(q) ==
  /\ activeAudioElements' = q.els
  /\ playReq' = q.pr
  /\ playing' = q.pl
  /\ nextElem' = q.ne

\* playAudioElement: audio.load() then audio.play(); load() silences the element
\* until the new play() promise settles
PlayAudioElement(q, id) ==
  [q EXCEPT !.pr = q.pr \cup {id}, !.pl = q.pl \ {id}]

NewAudio(q, chunk) ==
  [id |-> q.ne, chunk |-> chunk.id, fmt |-> DetectFormat(chunk.sig), rec |-> FALSE]

\* a faulty enqueue rule: every new element is played at once
CreateAndQueueAlwaysPlay(q, chunk) ==
  PlayAudioElement([q EXCEPT !.els = Append(q.els, NewAudio(q, chunk)), !.ne = q.ne + 1],
                   q.ne)

\* createAndQueueAudioElement
CreateAndQueueAudioElement(q, chunk) ==
  IF chunk.len < MIN_CHUNK_LEN THEN q
  ELSE LET q1 == [q EXCEPT !.els = Append(q.els, NewAudio(q, chunk)), !.ne = q.ne + 1]
       IN IF Len(q1.els) = 1 THEN PlayAudioElement(q1, q.ne) ELSE q1

\* chunks.forEach(chunk => this.createAndQueueAudioElement(chunk))
RECURSIVE QueueAll(_, _)
QueueAll(q, chunks) ==
  IF chunks = <<>> THEN q
  ELSE QueueAll(CreateAndQueueAudioElement(q, Head(chunks)), Tail(chunks))

\* removal of an element from the queue: its handlers are nulled and src emptied,
\* so it no longer sounds and a play() promise of it can no longer start it
Remove(q, id) ==
  [q EXCEPT !.els = Without(q.els, id), !.pr = q.pr \ {id}, !.pl = q.pl \ {id}]

\* if (this.activeAudioElements.length > 0) this.playAudioElement(this.activeAudioElements[0])
PlayHead(q) == IF Len(q.els) > 0 THEN PlayAudioElement(q, q.els[1].id) ELSE q

\* stopPlayback: pause and empty every element, clear the queue
StopPlaybackQ(q) == [q EXCEPT !.els = <<>>, !.pr = {}, !.pl = {}]

(***************************************************************************)
(* AudioStreamService: public methods, as the parts of the callers' steps. *)
(***************************************************************************)
\* addAudioChunk: the subject emits into the bufferTime window
SvcAddAudioChunk(chunk) ==
  IF chunk.len < MIN_CHUNK_LEN THEN window' = window
  ELSE window' = Append(window, chunk)

\* what a stop()/reset() call found: the completion flag and a sounding element
NoStop == [kind |-> "none", complete |-> FALSE, active |-> FALSE]
StopCall(kind) == [kind |-> kind, complete |-> isProcessingComplete, active |-> playing # {}]

\* stopPlayback.  The bufferTime window, the conversions in flight and the click
\* listeners are not touched by the code.
SvcStopPlayback ==
  /\ SetQ(StopPlaybackQ(QState))
  /\ playbackState' = "idle"
  /\ stopAt' = nextChunk
  /\ UNCHANGED <<window, hooks, gesture, playHist, ingVars>>

\* a faulty reset: the completion flag is left as it was
SvcResetKeepsComplete ==
  /\ SvcStopPlayback
  /\ UNCHANGED isProcessingComplete
  /\ quiet' = TRUE
  /\ lastStop' = StopCall("reset")

\* reset: stopPlayback, then isProcessingComplete = false
SvcReset ==
  /\ SvcStopPlayback
  /\ isProcessingComplete' = FALSE
  /\ quiet' = TRUE
  /\ lastStop' = StopCall("reset")

\* completeAudioStream
SvcComplete ==
  /\ isProcessingComplete' = TRUE
  /\ playbackState' = IF Len(activeAudioElements) = 0 THEN "idle" ELSE playbackState
  /\ UNCHANGED <<window, queueVars, hooks, gesture>>

(***************************************************************************)
(* AudioStreamService: callbacks.                                          *)
(***************************************************************************)
\* bufferTime(200) emits the window; filter drops an empty one; processAudioChunks
WindowFire ==
  /\ UNCHANGED <<rvcVars, navVars>>
  /\ window # <<>>
  /\ nextElem + Len(window) - 1 <= MaxElems
  /\ SetQ(QueueAll(QState, window))
  /\ window' = <<>>
  /\ playbackState' = IF playbackState = "idle" THEN "buffering" ELSE playbackState
  /\ UNCHANGED <<isProcessingComplete, hooks, gesture, histVars, ingVars, storeVars>>

\* audio.oncanplay of any element still in the queue
OnCanPlay ==
  /\ UNCHANGED <<rvcVars, navVars>>
  /\ Len(activeAudioElements) > 0
  /\ playbackState = "buffering"
  /\ playbackState' = "playing"
  /\ UNCHANGED <<window, queueVars, isProcessingComplete, hooks, gesture, histVars,
                 ingVars, storeVars>>

ChunkOf(id) ==
  (CHOOSE e \in {activeAudioElements[i] : i \in DOMAIN activeAudioElements} : e.id = id).chunk

\* the play() promise of an element resolves: the element sounds
PlayResolved(id) ==
  /\ UNCHANGED <<rvcVars, navVars>>
  /\ id \in playReq
  /\ gesture
  /\ playReq' = playReq \ {id}
  /\ playing' = playing \cup {id}
  /\ played' = IF played # <<>> /\ played[Len(played)] = ChunkOf(id)
               THEN played ELSE Append(played, ChunkOf(id))
  /\ UNCHANGED <<window, activeAudioElements, nextElem, playbackState,
                 isProcessingComplete, hooks, gesture, endedChunks, stopAt, quiet, lastStop,
                 ingVars, storeVars>>

\* a faulty handling of the refusal: the refused element is given up and the
\* next one is started in its place
PlayBlockedReleases(id) ==
  /\ UNCHANGED <<rvcVars, navVars>>
  /\ id \in playReq
  /\ ~gesture
  /\ SetQ(PlayHead(Remove(QState, id)))
  /\ hooks' = hooks \cup {id}
  /\ UNCHANGED <<window, playbackState, isProcessingComplete, gesture, histVars, ingVars,
                 storeVars>>

\* the play() promise rejects with NotAllowedError: arm the one-shot click listener
PlayBlocked(id) ==
  /\ UNCHANGED <<rvcVars, navVars>>
  /\ id \in playReq
  /\ ~gesture
  /\ playReq' = playReq \ {id}
  /\ hooks' = hooks \cup {id}
  /\ UNCHANGED <<window, activeAudioElements, nextElem, playing, playbackState,
                 isProcessingComplete, gesture, histVars, ingVars, storeVars>>

\* a click on the document: every armed playOnce calls audio.play() on its element
\* and removes itself; an element whose src was emptied cannot start
UserClick ==
  /\ UNCHANGED <<rvcVars, navVars>>
  /\ ~gesture \/ hooks # {}
  /\ gesture' = TRUE
  /\ hooks' = {}
  /\ playReq' = playReq \cup (hooks \cap ElemIds(activeAudioElements))
  /\ UNCHANGED <<window, activeAudioElements, nextElem, playing, playbackState,
                 isProcessingComplete, histVars, ingVars, storeVars>>

\* audio.onended
OnEnded(id) ==
  /\ UNCHANGED <<rvcVars, navVars>>
  /\ id \in playing
  /\ LET q1 == Remove(QState, id)
     IN /\ SetQ(PlayHead(q1))
        /\ playbackState' = IF Len(q1.els) = 0 /\ isProcessingComplete
                            THEN "idle" ELSE playbackState
  /\ endedChunks' = endedChunks \cup {ChunkOf(id)}
  /\ UNCHANGED <<window, isProcessingComplete, hooks, gesture, played, stopAt, quiet,
                 lastStop, ingVars, storeVars>>

\* recovery elements pushed by audio.onerror for the formats not yet in src
RECURSIVE PushRecovery(_, _, _)
PushRecovery(q, audio, fmts) ==
  IF fmts = <<>> THEN q
  ELSE PushRecovery([q EXCEPT !.els = Append(q.els, [id |-> q.ne, chunk |-> audio.chunk,
                                                      fmt |-> Head(fmts), rec |-> TRUE]),
                              !.ne = q.ne + 1],
                    audio, Tail(fmts))

\* audio.onerror; demux: the message names DEMUXER_ERROR or 'Failed to load'
OnErrorQ(q, audio, demux) ==
  IF demux /\ Len(q.els) <= 1
  THEN LET fmts == RecoveryFormats(audio.fmt)
           q1 == Remove(PushRecovery(q, audio, fmts), audio.id)
       IN PlayHead(q1)
  ELSE PlayHead(Remove(q, audio.id))

OnError(i, demux) ==
  /\ UNCHANGED <<rvcVars, navVars>>
  /\ i \in DOMAIN activeAudioElements
  /\ \/ ~(demux /\ Len(activeAudioElements) <= 1)
     \/ nextElem + Len(RecoveryFormats(activeAudioElements[i].fmt)) - 1 <= MaxElems
  /\ SetQ(OnErrorQ(QState, activeAudioElements[i], demux))
  /\ UNCHANGED <<window, playbackState, isProcessingComplete, hooks, gesture, histVars,
                 ingVars, storeVars>>

(***************************************************************************)
(* useSocket.ts: the 'realtime-event' handler and the control functions.   *)
(***************************************************************************)
\* useSocket's addAudioChunk wrapper: chunk.length > 10, then the service's own check
HookAddAudioChunk(chunk) ==
  IF chunk.len > 10 THEN SvcAddAudioChunk(chunk) ELSE window' = window

\* event.type 'audio.delta' / 'response.audio.delta', string-shaped delta
DeltaString(len, sig) ==
  /\ UNCHANGED <<rvcVars, navVars>>
  /\ nextChunk <= MaxChunks
  /\ HookAddAudioChunk([id |-> nextChunk, len |-> len, sig |-> sig])
  /\ isPlayingAudio' = TRUE
  /\ nextChunk' = nextChunk + 1
  /\ quiet' = FALSE
  /\ lastStop' = NoStop
  /\ UNCHANGED <<queueVars, playbackState, isProcessingComplete, hooks, gesture,
                 playHist, stopAt, conv, narrVars, isProcessing, isProcessingPage>>

\* array-shaped delta: processBinaryAudioData starts a FileReader and returns
DeltaArray(bytes, sig) ==
  /\ UNCHANGED <<rvcVars, navVars>>
  /\ nextChunk <= MaxChunks
  /\ conv' = Append(conv, [id |-> nextChunk, len |-> B64Len(bytes), sig |-> sig])
  /\ nextChunk' = nextChunk + 1
  /\ quiet' = FALSE
  /\ lastStop' = NoStop
  /\ UNCHANGED <<svcVars, playHist, stopAt, storeVars>>

\* reader.onloadend: the promise resolves with the base64 text; .then(addAudioChunk).
\* Conversions are taken to complete in the order they were started.
ConvDone ==
  /\ UNCHANGED <<rvcVars, navVars>>
  /\ conv # <<>>
  /\ HookAddAudioChunk(Head(conv))
  /\ conv' = Tail(conv)
  /\ isPlayingAudio' = TRUE
  /\ UNCHANGED <<queueVars, playbackState, isProcessingComplete, hooks, gesture,
                 histVars, nextChunk, narrVars, isProcessing, isProcessingPage>>

\* event.type 'done' / 'response.audio.done'
StreamDone ==
  /\ UNCHANGED <<rvcVars, navVars>>
  /\ isPlayingAudio' = FALSE
  /\ SvcComplete
  /\ isProcessing' = FALSE
  /\ isProcessingPage' = FALSE
  /\ quiet' = FALSE
  /\ lastStop' = NoStop
  /\ UNCHANGED <<playHist, stopAt, ingVars, narrVars>>

\* clearTimeout(autoAdvanceTimeoutRef.current): the one timer the ref holds
ClearAutoAdvance ==
  /\ autoTimers' = {t \in autoTimers : t.id # autoAdvanceTimeoutRef}
  /\ autoAdvanceTimeoutRef' = 0

\* stopAudio: currentAudio is never set by this hook, so the service is reset,
\* the auto-advance timer of the ref cleared and the store flag cleared
StopAudio ==
  /\ SvcReset
  /\ ClearAutoAdvance
  /\ isPlayingAudio' = FALSE
  /\ UNCHANGED <<rvcVars, pdfDoc, startNarrationTimer, backupTimer, emitted,
                 wasNarratingRef, viewerVars, hookVars, pageConv, advanceRequests>>
  /\ UNCHANGED <<narrVars, isProcessing, isProcessingPage>>

\* a faulty stop: it clears the completion flag as reset() does
StopPlaybackClearsComplete ==
  /\ UNCHANGED <<rvcVars, navVars>>
  /\ SvcStopPlayback
  /\ lastStop' = StopCall("stop")
  /\ isProcessingComplete' = FALSE
  /\ UNCHANGED <<quiet, storeVars>>

\* audioStreamService.stopPlayback(), as useAudioStream.stopAudio calls it
StopPlayback ==
  /\ UNCHANGED <<rvcVars, navVars>>
  /\ SvcStopPlayback
  /\ lastStop' = StopCall("stop")
  /\ UNCHANGED <<isProcessingComplete, quiet, storeVars>>

(***************************************************************************)
(* useAudioStream (unnamed/part_001): the socket handlers of the hook and  *)
(* its control functions, on top of the same service.                      *)
(***************************************************************************)
uasFrame == <<rvcVars, storeVars, pdfDoc, startNarrationTimer, backupTimer, emitted,
              wasNarratingRef, viewerVars, error, mimeVars, appVars, advVars>>

\* handleAudioChunk ('audio_chunk')
AudioChunk(len) ==
  /\ nextChunk <= MaxChunks
  /\ IF len < 10
     THEN UNCHANGED <<window, hasAudioData, gotData, acceptedSinceReset>>
     ELSE /\ hasAudioData' = TRUE
          /\ SvcAddAudioChunk([id |-> nextChunk, len |-> len, sig |-> "none"])
          /\ gotData' = TRUE
          /\ acceptedSinceReset' = TRUE
  /\ nextChunk' = nextChunk + 1
  /\ quiet' = FALSE
  /\ lastStop' = NoStop
  /\ UNCHANGED <<queueVars, playbackState, isProcessingComplete, hooks, gesture, playHist,
                 stopAt, conv, renderedHasData, uasStreaming, uasError, uasFrame>>

\* handleAudioStart ('audio_start'): a stream begins
AudioStart ==
  /\ uasStreaming' = TRUE
  /\ gotData' = FALSE
  /\ UNCHANGED <<svcVars, histVars, ingVars, hasAudioData, renderedHasData, uasError,
                 acceptedSinceReset, uasFrame>>

\* handleAudioEnd ('audio_end'): hasAudioData is read from the closure of the
\* render in which the handler was registered
AudioEnd ==
  /\ uasStreaming' = FALSE
  /\ SvcComplete
  /\ uasError' = IF ~renderedHasData THEN "noData" ELSE uasError
  /\ gotData' = FALSE
  /\ quiet' = FALSE
  /\ lastStop' = NoStop
  /\ UNCHANGED <<playHist, stopAt, ingVars, hasAudioData, renderedHasData,
                 acceptedSinceReset, uasFrame>>

\* handleAudioError ('audio_error')
AudioError ==
  /\ uasError' = "stream"
  /\ uasStreaming' = FALSE
  /\ SvcReset
  /\ UNCHANGED <<hasAudioData, renderedHasData, gotData, acceptedSinceReset, uasFrame>>

\* the effect's dependency hasAudioData changed: the handlers are registered
\* again, closing over the new value
UasEffect ==
  /\ renderedHasData # hasAudioData
  /\ renderedHasData' = hasAudioData
  /\ UNCHANGED <<svcVars, histVars, ingVars, hasAudioData, uasStreaming, uasError,
                 gotData, acceptedSinceReset, uasFrame>>

\* resetAudio
ResetAudio ==
  /\ SvcReset
  /\ uasStreaming' = FALSE
  /\ uasError' = "none"
  /\ hasAudioData' = FALSE
  /\ acceptedSinceReset' = FALSE
  /\ UNCHANGED <<renderedHasData, gotData, uasFrame>>

\* stopAudio: stopPlayback(), and a running stream is told to stop
UasStopAudio ==
  /\ SvcStopPlayback
  /\ lastStop' = StopCall("stop")
  /\ uasStreaming' = FALSE
  /\ UNCHANGED <<isProcessingComplete, quiet, hasAudioData, renderedHasData, uasError,
                 gotData, acceptedSinceReset, uasFrame>>

(***************************************************************************)
(* useRealtimeVoiceChat (unnamed/part_000): the hook's batching engine and *)
(* playback queue, as functions on the record r of its refs and state:     *)
(*   acc, buf   accumulatedChunks, audioBufferChunks                       *)
(*   proc       audioChunksProcessed      done   isProcessingComplete      *)
(*   last       lastChunkTime             timer  the flush timer is armed  *)
(*   cur, que   currentAudioRef, audioPlaybackQueue                        *)
(*   pr, pl     outstanding play() promises, sounding elements             *)
(*   streaming  isStreaming               playingAudio  store flag         *)
(*   na         next element identity                                      *)
(***************************************************************************)
NoAudio == [id |-> 0, chunks |-> <<>>]

RState ==
  [acc |-> accumulatedChunks, buf |-> audioBufferChunks, proc |-> audioChunksProcessed,
   done |-> isProcessingCompleteRef, last |-> lastChunkTime, timer |-> bufferingTimeoutRef,
   cur |-> currentAudioRef, que |-> audioPlaybackQueue, pr |-> rvcPlayReq,
   pl |-> rvcPlaying, streaming |-> isStreaming, playingAudio |-> isPlayingAudio,
   na |-> nextAudio]

SetR(r) ==
  /\ accumulatedChunks' = r.acc
  /\ audioBufferChunks' = r.buf
  /\ audioChunksProcessed' = r.proc
  /\ isProcessingCompleteRef' = r.done
  /\ lastChunkTime' = r.last
  /\ bufferingTimeoutRef' = r.timer
  /\ currentAudioRef' = r.cur
  /\ audioPlaybackQueue' = r.que
  /\ rvcPlayReq' = r.pr
  /\ rvcPlaying' = r.pl
  /\ isStreaming' = r.streaming
  /\ isPlayingAudio' = r.playingAudio
  /\ nextAudio' = r.na

\* checkAndFinishStreaming
CheckAndFinishStreaming(r) ==
  IF /\ r.done
     /\ r.cur = NoAudio
     /\ Len(r.que) = 0
     /\ Len(r.buf) = 0
     /\ Len(r.acc) = 0
  THEN [r EXCEPT !.streaming = FALSE, !.playingAudio = FALSE, !.proc = 0,
                 !.done = FALSE, !.last = 0]
  ELSE r

\* playNextInQueue
PlayNextInQueue(r) ==
  IF Len(r.que) > 0 /\ r.cur = NoAudio
  THEN [r EXCEPT !.cur = Head(r.que), !.que = Tail(r.que), !.playingAudio = TRUE,
                 !.pr = r.pr \cup {Head(r.que).id}]
  ELSE r

\* atob(chunksToProcess.join('')): the forgiving base64 decode fails on a
\* length of 4k + 1 and on a '=' that is not at the end of the joined text
RECURSIVE SumLen(_)
SumLen(chunks) == IF chunks = <<>> THEN 0 ELSE Head(chunks).len + SumLen(Tail(chunks))

Decodes(chunks) ==
  /\ SumLen(chunks) % 4 # 1
  /\ \A i \in 1..(Len(chunks) - 1) : ~chunks[i].pad

\* processAndPlayAudioChunks: the whole buffer becomes one WAV Audio element;
\* when the decode throws, the catch swallows it and the batch is gone
ProcessAndPlayAudioChunks(r) ==
  IF Len(r.buf) = 0 THEN r
  ELSE IF ~Decodes(r.buf) THEN [r EXCEPT !.buf = <<>>]
  ELSE LET audio == [id |-> r.na, chunks |-> r.buf]
           r1 == [r EXCEPT !.buf = <<>>, !.na = r.na + 1, !.proc = r.proc + Len(r.buf)]
       IN IF r1.cur = NoAudio
          THEN [r1 EXCEPT !.cur = audio, !.playingAudio = TRUE, !.pr = r.pr \cup {audio.id}]
          ELSE [r1 EXCEPT !.que = Append(r.que, audio)]

\* processAccumulatedChunks
ProcessAccumulatedChunks(r) ==
  IF Len(r.acc) = 0 THEN r
  ELSE ProcessAndPlayAudioChunks([r EXCEPT !.acc = <<>>, !.buf = r.buf \o r.acc,
                                           !.last = 1])

BUFFER_SIZE_THRESHOLD == 5
INITIAL_PLAYBACK_CHUNKS == 3

\* a faulty size rule: the buffer is flushed one chunk late
FlushNowLate(r, late) ==
  \/ Len(r.acc) >= BUFFER_SIZE_THRESHOLD + 1
  \/ r.proc = 0 /\ Len(r.acc) >= INITIAL_PLAYBACK_CHUNKS
  \/ r.last > 0 /\ late

\* the three immediate-flush rules of 'response.audio.delta'; late: more than
\* 1000 ms have passed since lastChunkTime
FlushNow(r, late) ==
  \/ Len(r.acc) >= BUFFER_SIZE_THRESHOLD
  \/ r.proc = 0 /\ Len(r.acc) >= INITIAL_PLAYBACK_CHUNKS
  \/ r.last > 0 /\ late

\* case 'response.audio.delta' for a non-empty string delta
OnAudioDelta(r, chunk, late) ==
  LET r1 == [r EXCEPT !.acc = Append(r.acc, chunk), !.streaming = TRUE, !.timer = FALSE]
      r2 == IF FlushNow(r1, late) THEN ProcessAccumulatedChunks(r1)
            ELSE [r1 EXCEPT !.timer = TRUE]
  IN [r2 EXCEPT !.last = 1]

\* case 'response.audio.done'
OnAudioDone(r) ==
  LET r1 == ProcessAccumulatedChunks([r EXCEPT !.done = TRUE, !.timer = FALSE])
      r2 == IF Len(r1.buf) > 0 THEN ProcessAndPlayAudioChunks(r1)
            ELSE IF r1.cur = NoAudio /\ Len(r1.que) = 0
                 THEN [r1 EXCEPT !.streaming = FALSE]
                 ELSE r1
  IN [r2 EXCEPT !.last = 0]

\* case 'response.done' (setIsProcessing(false) is in the action)
OnResponseDone(r) ==
  LET r1 == ProcessAccumulatedChunks([r EXCEPT !.done = TRUE, !.timer = FALSE])
  IN [r1 EXCEPT !.acc = <<>>, !.buf = <<>>]

\* audio.onended of an element of the hook
OnAudioEnded(r, id) ==
  LET r1 == [r EXCEPT !.cur = IF r.cur.id = id THEN NoAudio ELSE r.cur,
                      !.que = SeqFilter(r.que, ElemIds(r.que) \ {id}),
                      !.pl = r.pl \ {id}]
  IN CheckAndFinishStreaming(PlayNextInQueue(r1))

\* the catch of play(): the rejected element is not told apart from the current
OnPlayRejected(r, id) ==
  CheckAndFinishStreaming([r EXCEPT !.pr = r.pr \ {id}, !.cur = NoAudio,
                                    !.playingAudio = FALSE])

\* the effect's cleanup: the current element is paused and dropped, the queue,
\* the timer and the accumulated chunks are cleared.  pause() rejects an
\* outstanding play() of the element, whose catch runs right after.
EffectCleanupR(r) ==
  LET r1 == [r EXCEPT !.cur = NoAudio, !.pl = r.pl \ {r.cur.id}, !.que = <<>>,
                      !.timer = FALSE, !.acc = <<>>]
  IN IF r.cur # NoAudio /\ r.cur.id \in r.pr THEN OnPlayRejected(r1, r.cur.id) ELSE r1

(***************************************************************************)
(* useRealtimeVoiceChat: the steps.                                        *)
(***************************************************************************)
rvcFrame == <<svcVars, histVars, ingVars, narrVars, isProcessingPage, navVars>>

BurstReset ==
  /\ burst' = 0
  /\ burstFlushes' = {}
  /\ burstFresh' = FALSE

\* the step that led to r took the pending chunks out of the accumulation buffer
Flushed(r) == accumulatedChunks # <<>> /\ r.acc = <<>>

\* 'response.created'
ResponseCreated ==
  /\ respPhase = "idle"
  /\ nextDelta <= MaxDeltas
  /\ respPhase' = "open"
  /\ isProcessing' = TRUE
  /\ flushedInStream' = FALSE
  /\ BurstReset
  /\ UNCHANGED <<refVars, isPlayingAudio, renderedStreaming, deltaVars, rvcFrame>>

\* the payload of a delta event: "string" is a base64 string of 12 characters
\* without padding, "padded" one of 12 characters that ends in '=', "short" a
\* string of 8 characters, below the minimum viable size, "other" an empty
\* delta or a byte array
StringShapes == {"string", "padded", "short"}
DeltaLen(shape) == IF shape = "short" THEN 8 ELSE IF shape = "other" THEN 0 ELSE 12
DeltaChunk(shape) == [id |-> nextDelta, len |-> DeltaLen(shape), pad |-> shape = "padded"]

\* 'response.audio.delta'; a non-empty string is pushed whatever its length,
\* anything else is passed over by the handler and only ends a burst
AudioDelta(shape, late) ==
  /\ respPhase = "open"
  /\ nextDelta <= MaxDeltas
  /\ late => (lastChunkTime > 0 /\ ~bufferingTimeoutRef)
  /\ shape \in {"short", "padded"} => irregularDeltas < MaxIrregular
  /\ irregularDeltas' = IF shape \in {"short", "padded"} THEN irregularDeltas + 1
                        ELSE irregularDeltas
  /\ IF shape \in StringShapes
     THEN LET r == OnAudioDelta(RState, DeltaChunk(shape), late)
              go == /\ ~late
                    /\ burst < BUFFER_SIZE_THRESHOLD
                    /\ burst > 0 \/ Len(accumulatedChunks) = 0
          IN /\ SetR(r)
             /\ nextDelta' = nextDelta + 1
             /\ flushedInStream' = (flushedInStream \/ r.acc = <<>>)
             /\ burst' = IF go THEN burst + 1 ELSE 0
             /\ burstFlushes' = IF ~go THEN {}
                                ELSE IF r.acc = <<>> THEN burstFlushes \cup {burst + 1}
                                ELSE burstFlushes
             /\ burstFresh' = IF ~go THEN FALSE
                              ELSE IF burst = 0 THEN audioChunksProcessed = 0
                              ELSE burstFresh
     ELSE /\ burst > 0
          /\ BurstReset
          /\ UNCHANGED <<refVars, isPlayingAudio, flushedInStream, nextDelta>>
  /\ UNCHANGED <<isProcessing, renderedStreaming, respPhase, rvcFrame>>

\* the 300 ms timer fires
BufferingTimeout ==
  /\ bufferingTimeoutRef
  /\ LET r == ProcessAccumulatedChunks([RState EXCEPT !.timer = FALSE])
     IN /\ SetR(r)
        /\ flushedInStream' = (flushedInStream \/ Flushed(r))
  /\ BurstReset
  /\ UNCHANGED <<isProcessing, renderedStreaming, respPhase, deltaVars, rvcFrame>>

\* 'response.audio.done'
AudioDone ==
  /\ respPhase = "open"
  /\ respPhase' = "audioDone"
  /\ LET r == OnAudioDone(RState)
     IN /\ SetR(r)
        /\ flushedInStream' = (flushedInStream \/ Flushed(r))
  /\ BurstReset
  /\ UNCHANGED <<isProcessing, renderedStreaming, deltaVars, rvcFrame>>

\* 'response.done'
ResponseDone ==
  /\ respPhase \in {"open", "audioDone"}
  /\ respPhase' = "idle"
  /\ isProcessing' = FALSE
  /\ LET r == OnResponseDone(RState)
     IN /\ SetR(r)
        /\ flushedInStream' = (flushedInStream \/ Flushed(r))
  /\ BurstReset
  /\ UNCHANGED <<renderedStreaming, deltaVars, rvcFrame>>

\* the play() promise of a hook element resolves
RvcPlayResolved(id) ==
  /\ id \in rvcPlayReq
  /\ rvcPlayReq' = rvcPlayReq \ {id}
  /\ rvcPlaying' = rvcPlaying \cup {id}
  /\ BurstReset
  /\ UNCHANGED <<accumulatedChunks, audioBufferChunks, audioChunksProcessed,
                 isProcessingCompleteRef, lastChunkTime, bufferingTimeoutRef,
                 currentAudioRef, audioPlaybackQueue, isStreaming, nextAudio,
                 isPlayingAudio, isProcessing, renderedStreaming, respPhase, deltaVars,
                 flushedInStream, rvcFrame>>

\* the play() promise rejects (autoplay policy, unsupported source)
RvcPlayRejected(id) ==
  /\ id \in rvcPlayReq
  /\ SetR(OnPlayRejected(RState, id))
  /\ BurstReset
  /\ UNCHANGED <<isProcessing, renderedStreaming, respPhase, deltaVars, flushedInStream,
                 rvcFrame>>

\* audio.onended
RvcOnEnded(id) ==
  /\ id \in rvcPlaying
  /\ SetR(OnAudioEnded(RState, id))
  /\ BurstReset
  /\ UNCHANGED <<isProcessing, renderedStreaming, respPhase, deltaVars, flushedInStream,
                 rvcFrame>>

\* audio.onerror of a sounding element: it falls silent; the handler only
\* revokes the URL and calls checkAndFinishStreaming
RvcOnError(id) ==
  /\ id \in rvcPlaying
  /\ SetR(CheckAndFinishStreaming([RState EXCEPT !.pl = rvcPlaying \ {id}]))
  /\ BurstReset
  /\ UNCHANGED <<isProcessing, renderedStreaming, respPhase, deltaVars, flushedInStream,
                 rvcFrame>>

\* isStreaming is a dependency of the effect: after a render with a changed
\* value the cleanup runs and the effect is set up again
EffectCleanup ==
  /\ renderedStreaming # isStreaming
  /\ SetR(EffectCleanupR(RState))
  /\ renderedStreaming' = isStreaming
  /\ BurstReset
  /\ UNCHANGED <<isProcessing, respPhase, deltaVars, flushedInStream, rvcFrame>>

\* case 'error': setError, setIsProcessing(false) and the buffered chunks are
\* dropped; the current element, the queue, the accumulated chunks and the
\* timer are left as they are
ErrorEvent ==
  /\ error' = TRUE
  /\ isProcessing' = FALSE
  /\ audioBufferChunks' = <<>>
  /\ BurstReset
  /\ UNCHANGED <<accumulatedChunks, audioChunksProcessed, isProcessingCompleteRef,
                 lastChunkTime, bufferingTimeoutRef, currentAudioRef, audioPlaybackQueue,
                 isStreaming, nextAudio, rvcPlayReq, rvcPlaying, isPlayingAudio,
                 renderedStreaming, respPhase, deltaVars, flushedInStream, svcVars,
                 histVars, ingVars, narrVars, isProcessingPage, pdfDoc,
                 startNarrationTimer, backupTimer, emitted, wasNarratingRef, viewerVars,
                 mimeVars, uasVars, appVars, advVars>>

(***************************************************************************)
(* The store's page navigation, the PDFViewer's narration handlers and the *)
(* hooks' control functions they call.                                     *)
(***************************************************************************)
\* useSocket's currentAudio state: useState(null), and the only setCurrentAudio
\* call of the hook passes null
currentAudio == FALSE

\* useStore.nextPage / prevPage / setPageNum: the page and, while narration is
\* on and not paused, the narration page
StorePage(p) ==
  IF p = pageNum \/ p < 1 \/ (pageCount > 0 /\ p > pageCount)
  THEN [pageNum |-> pageNum, narrationCurrentPage |-> narrationCurrentPage]
  ELSE [pageNum |-> p,
        narrationCurrentPage |-> IF isNarrating /\ ~isNarrationPaused
                                 THEN p ELSE narrationCurrentPage]

\* sendTextInput's guards on a connected socket: a narration request is refused
\* while recording, any other text while a response is processed
SendTextInputOk(narration) ==
  IF narration THEN ~isRecording ELSE ~isProcessing

\* a click on the document: the armed playOnce listeners run after the
\* component's handler, on the queue q the handler left
ClickOn(q) ==
  /\ gesture' = TRUE
  /\ hooks' = {}
  /\ SetQ([q EXCEPT !.pr = q.pr \cup (hooks \cap ElemIds(q.els))])

\* audioStreamService.reset() under a click
ClickReset ==
  /\ ClickOn(StopPlaybackQ(QState))
  /\ playbackState' = "idle"
  /\ isProcessingComplete' = FALSE
  /\ stopAt' = nextChunk
  /\ quiet' = TRUE
  /\ lastStop' = StopCall("reset")
  /\ UNCHANGED <<window, playHist, ingVars>>

ClickOnly ==
  /\ ClickOn(QState)
  /\ UNCHANGED <<window, playbackState, isProcessingComplete, histVars, ingVars>>

\* PDFViewer.tsx startNarration, from its first check to the request
StartNarrationBody ==
  IF isProcessing \/ isRecording
  THEN UNCHANGED <<isNarrating, isNarrationPaused, narrationCurrentPage,
                   isProcessingPage, emitted, backupTimer, lastNarratedPage>>
  ELSE /\ isNarrating' = TRUE
       /\ isNarrationPaused' = FALSE
       /\ narrationCurrentPage' = pageNum
       /\ lastNarratedPage' = pageNum
       /\ IF SendTextInputOk(TRUE)
          THEN /\ isProcessingPage' = TRUE
               /\ emitted' = emitted + 1
               /\ backupTimer' = "viewer"
          ELSE UNCHANGED <<isProcessingPage, emitted, backupTimer>>

\* the narrate button of components/PDFViewer.tsx
StartNarration ==
  /\ emitted < MaxRequests
  /\ IF currentAudio /\ ~(isProcessing \/ isRecording)
     THEN ClickReset /\ isPlayingAudio' = FALSE
     ELSE ClickOnly /\ UNCHANGED isPlayingAudio
  /\ StartNarrationBody
  /\ UNCHANGED <<isRecording, isProcessing, pageNum, pageCount, pdfDoc,
                 startNarrationTimer, wasNarratingRef, hookVars, advVars, rvcVars>>

\* the setTimeout(() => startNarration(), 100) of handleNextPage / handlePrevPage
StartNarrationTimerFire ==
  /\ startNarrationTimer
  /\ emitted < MaxRequests
  /\ startNarrationTimer' = FALSE
  /\ StartNarrationBody
  /\ UNCHANGED <<svcVars, histVars, ingVars, isRecording, isProcessing, isPlayingAudio,
                 pageNum, pageCount, pdfDoc, wasNarratingRef, hookVars, advVars,
                 rvcVars>>

\* the narrate button of the PDFViewer in App.tsx; textEmpty: the page has no text,
\* so requestNarration refuses and sendTextInput is the fallback
StartNarrationApp(textEmpty) ==
  /\ emitted < MaxRequests
  /\ IF ~pdfDoc \/ isProcessingPage
     THEN /\ ClickOnly
          /\ UNCHANGED <<isNarrating, isNarrationPaused, narrationCurrentPage,
                         isProcessingPage, emitted, backupTimer>>
     ELSE IF isNarrating /\ ~isNarrationPaused /\ narrationCurrentPage = pageNum
     THEN /\ ClickOnly
          /\ UNCHANGED <<isNarrating, isNarrationPaused, narrationCurrentPage,
                         isProcessingPage, emitted, backupTimer>>
     ELSE IF isNarrating /\ isNarrationPaused
     THEN \* resumeAudio(): nothing without a currentAudio
          /\ ClickOnly
          /\ UNCHANGED <<isNarrating, isNarrationPaused, narrationCurrentPage,
                         isProcessingPage, emitted, backupTimer>>
     ELSE /\ isNarrating' = TRUE
          /\ isNarrationPaused' = FALSE
          /\ narrationCurrentPage' = pageNum
          \* stopRxJSAudio(); resetAudio()
          /\ ClickReset
          /\ IF isRecording
             THEN UNCHANGED <<isProcessingPage, emitted, backupTimer>>
             ELSE /\ emitted' = emitted + 1
                  /\ backupTimer' = "app"
                  /\ isProcessingPage' = IF textEmpty /\ SendTextInputOk(TRUE)
                                         THEN TRUE ELSE isProcessingPage
  /\ UNCHANGED <<isRecording, isProcessing, isPlayingAudio, pageNum, pageCount, pdfDoc,
                 startNarrationTimer, wasNarratingRef, viewerVars, hookVars, advVars,
                 rvcVars>>

\* the backup timers of startNarration: another text is sent when narration is
\* on and no audio plays; the text is not recognised as a narration request
BackupTimerFire ==
  /\ backupTimer # "none"
  /\ emitted < MaxRequests
  /\ backupTimer' = "none"
  /\ IF /\ isNarrating
        /\ ~isPlayingAudio
        /\ backupTimer = "app" => ~isNarrationPaused
        /\ SendTextInputOk(FALSE)
     THEN /\ isProcessing' = TRUE
          /\ emitted' = emitted + 1
     ELSE UNCHANGED <<isProcessing, emitted>>
  /\ UNCHANGED <<svcVars, histVars, ingVars, narrVars, isPlayingAudio, isProcessingPage,
                 pdfDoc, startNarrationTimer, wasNarratingRef, viewerVars, hookVars,
                 advVars, rvcVars>>

\* stopNarration
StopNarration ==
  /\ isNarrating
  /\ isNarrating' = FALSE
  /\ isNarrationPaused' = FALSE
  \* stopAudio(): resetAudioStream(), the timer of the ref, setIsPlayingAudio(false)
  /\ ClickReset
  /\ ClearAutoAdvance
  /\ isPlayingAudio' = FALSE
  /\ UNCHANGED <<isRecording, isProcessing, narrationCurrentPage, pageNum, pageCount,
                 isProcessingPage, pdfDoc, startNarrationTimer, backupTimer, emitted,
                 wasNarratingRef, viewerVars, hookVars, pageConv, advanceRequests, rvcVars>>

\* handleNextPage (dir = 1) and handlePrevPage (dir = -1)
HandlePage(dir) ==
  /\ IF dir = 1 THEN pageNum < pageCount ELSE pageNum > 1
  /\ IF isNarrating /\ currentAudio
     THEN ClickReset /\ isPlayingAudio' = FALSE
     ELSE ClickOnly /\ UNCHANGED isPlayingAudio
  /\ pageNum' = StorePage(pageNum + dir).pageNum
  /\ narrationCurrentPage' = IF isNarrating THEN pageNum + dir
                             ELSE StorePage(pageNum + dir).narrationCurrentPage
  /\ startNarrationTimer' = IF isNarrating /\ ~isNarrationPaused
                            THEN TRUE ELSE startNarrationTimer
  /\ UNCHANGED <<isRecording, isProcessing, isNarrating, isNarrationPaused, pageCount,
                 isProcessingPage, pdfDoc, backupTimer, emitted, wasNarratingRef,
                 lastNarratedPage, hookVars, advVars, rvcVars>>

HandleNextPage == HandlePage(1)

HandlePrevPage == HandlePage(-1)

\* the document is loaded: setPDFDoc and setPageCount
LoadPDF ==
  /\ ~pdfDoc
  /\ pdfDoc' = TRUE
  /\ pageCount' = MaxPages
  /\ UNCHANGED <<svcVars, histVars, ingVars, isRecording, isProcessing, isNarrating,
                 isNarrationPaused, narrationCurrentPage, isPlayingAudio, pageNum,
                 isProcessingPage, startNarrationTimer, backupTimer, emitted, wasNarratingRef,
                 viewerVars, hookVars, advVars, rvcVars>>

\* useStore.setIsRecording, as the AudioRecorder's sync effect calls it
SetIsRecording(b) ==
  /\ isRecording # b
  /\ isRecording' = b
  /\ UNCHANGED <<svcVars, histVars, ingVars, isProcessing, isNarrating, isNarrationPaused,
                 narrationCurrentPage, isPlayingAudio, pageNum, pageCount,
                 isProcessingPage, navVars, rvcVars>>

\* useStore.setIsProcessing, as the hooks call it around a response
SetIsProcessing(b) ==
  /\ isProcessing # b
  /\ isProcessing' = b
  /\ UNCHANGED <<svcVars, histVars, ingVars, narrVars, isPlayingAudio, isProcessingPage,
                 navVars, rvcVars>>

\* useSocket's pauseAudio / resumeAudio: nothing without a currentAudio
PauseAudio ==
  IF currentAudio
  THEN /\ isNarrationPaused' = TRUE
       /\ isPlayingAudio' = FALSE
  ELSE UNCHANGED <<isNarrationPaused, isPlayingAudio>>

ResumeAudio ==
  IF currentAudio
  THEN /\ isNarrationPaused' = FALSE
       /\ isPlayingAudio' = TRUE
  ELSE UNCHANGED <<isNarrationPaused, isPlayingAudio>>

\* AudioRecorder's startRecordingHandler on the press of the record button;
\* ok: the session, the buffer clear and startRecording() succeed, and the sync
\* effect copies the hook's isRecording to the store
StartRecordingHandler(ok) ==
  /\ ~isRecording /\ ~isProcessing
  /\ LET wasNarrating == isNarrating /\ ~isNarrationPaused /\ isPlayingAudio
     IN IF ok
        THEN /\ wasNarratingRef' = wasNarrating
             /\ IF wasNarrating THEN PauseAudio
                ELSE UNCHANGED <<isNarrationPaused, isPlayingAudio>>
             /\ isRecording' = TRUE
        ELSE \* pauseAudio() and then resumeAudio() in the failure branch
             /\ wasNarratingRef' = FALSE
             /\ IF wasNarrating /\ currentAudio
                THEN isNarrationPaused' = FALSE /\ isPlayingAudio' = TRUE
                ELSE UNCHANGED <<isNarrationPaused, isPlayingAudio>>
             /\ UNCHANGED isRecording
  /\ ClickOnly
  /\ UNCHANGED <<isProcessing, isNarrating, narrationCurrentPage, pageNum, pageCount,
                 isProcessingPage, pdfDoc, startNarrationTimer, backupTimer, emitted,
                 viewerVars, hookVars, advVars, rvcVars>>

(***************************************************************************)
(* PDFViewer's page-change effects: the three useEffect hooks that watch   *)
(* the page and the narration state, and the timers they arm.              *)
(***************************************************************************)
\* the values the effects depend on, as one render sees them
PageDeps == [narrating |-> isNarrating, paused |-> isNarrationPaused,
             narrPage |-> narrationCurrentPage, page |-> pageNum,
             processing |-> isProcessingPage, last |-> lastNarratedPage]

RemoveAt(s, i) == SubSeq(s, 1, i - 1) \o SubSeq(s, i + 1, Len(s))

pageFrame == <<svcVars, histVars, ingVars, isRecording, isProcessing, isPlayingAudio,
               pageNum, pageCount, rvcVars, pdfDoc, startNarrationTimer, wasNarratingRef,
               error, mimeVars, uasVars, recVars, regVars, docVars, advVars>>

\* the commit after a render in which a dependency changed: the effects whose
\* dependencies changed run in source order on the render's values; their
\* set-state calls land after the commit, the later one winning
PageEffects ==
  LET d == PageDeps
      r == renderedDeps
      common == <<d.narrating, d.paused, d.page, d.processing>>
                  # <<r.narrating, r.paused, r.page, r.processing>>
      \* "Handle automatic narration when page changes"
      auto == /\ common \/ d.narrPage # r.narrPage
              /\ d.narrating /\ ~d.paused /\ d.page = d.narrPage /\ ~d.processing
      \* "unprocessed page change"
      unprocessed == /\ common \/ d.last # r.last
                     /\ d.narrating /\ ~d.paused /\ ~d.processing /\ ~currentAudio
                     /\ d.page # d.last
      \* "manual page change handler"
      manual == /\ common \/ d.narrPage # r.narrPage
                /\ d.narrating /\ d.page # d.narrPage /\ ~d.processing
      armed == (IF auto THEN <<[kind |-> "auto", page |-> d.page]>> ELSE <<>>)
               \o (IF unprocessed THEN <<[kind |-> "unprocessed", page |-> d.page]>>
                   ELSE <<>>)
               \o (IF manual /\ ~d.paused THEN <<[kind |-> "manual", page |-> d.page]>>
                   ELSE <<>>)
  IN /\ d # r
     /\ Len(pageTimers) + Len(armed) <= MaxTimers
     /\ renderedDeps' = d
     /\ pageTimers' = pageTimers \o armed
     /\ lastNarratedPage' = IF unprocessed THEN d.page ELSE lastNarratedPage
     /\ narrationCurrentPage' = IF unprocessed \/ manual THEN d.page
                                ELSE narrationCurrentPage
     /\ UNCHANGED <<isNarrating, isNarrationPaused, isProcessingPage, backupTimer,
                    emitted, pageFrame>>

\* a timer of the effects fires: "auto" and "manual" call sendTextInput with a
\* narration text for the page they captured, "unprocessed" calls startNarration
PageTimerFire(i) ==
  /\ i \in DOMAIN pageTimers
  /\ emitted < MaxNavRequests
  /\ pageTimers' = RemoveAt(pageTimers, i)
  /\ IF pageTimers[i].kind = "unprocessed"
     THEN StartNarrationBody
     ELSE /\ IF SendTextInputOk(TRUE)
             THEN /\ isProcessingPage' = TRUE
                  /\ emitted' = emitted + 1
             ELSE UNCHANGED <<isProcessingPage, emitted>>
          /\ UNCHANGED <<isNarrating, isNarrationPaused, narrationCurrentPage,
                         backupTimer, lastNarratedPage>>
  /\ UNCHANGED <<renderedDeps, pageFrame>>

(***************************************************************************)
(* store/useStore.ts: the page actions and the transcript of the store.    *)
(* A text is a sequence of characters; ids and timestamps of messages are  *)
(* left out, nothing reads them back.                                      *)
(***************************************************************************)
Chars == {"a", "b"}
Texts == UNION {[1..n -> Chars] : n \in 1..2}
Types == {"user", "bot"}
Welcome == [text |-> <<"W">>, type |-> "bot"]
NoCall == [op |-> "none"]

\* the store as get() returns it
StoreState ==
  [messages |-> messages,
   pdfState |-> [pdfDoc |-> pdfDoc, pageNum |-> pageNum, pageCount |-> pageCount,
                 forceRender |-> forceRender],
   audioState |-> [isRecording |-> isRecording, isProcessing |-> isProcessing,
                   isNarrating |-> isNarrating, isNarrationPaused |-> isNarrationPaused,
                   narrationCurrentPage |-> narrationCurrentPage,
                   isPlayingAudio |-> isPlayingAudio]]

storeFrame == <<svcVars, histVars, ingVars, isRecording, isProcessing, isPlayingAudio,
                isProcessingPage, rvcVars, startNarrationTimer, backupTimer, emitted,
                wasNarratingRef, viewerVars, error, mimeVars, uasVars, recVars, regVars,
                pageVars, advVars>>

setPDFDoc(doc) ==
  /\ pdfDoc' = doc
  /\ forceRender' = 0
  /\ lastCall' = [op |-> "setPDFDoc", before |-> StoreState]
  /\ UNCHANGED <<pageNum, pageCount, isNarrating, isNarrationPaused,
                 narrationCurrentPage, messages, storeFrame>>

setPageNum(p) ==
  /\ StorePage(p).pageNum # pageNum => forceRender < MaxRenders
  /\ pageNum' = StorePage(p).pageNum
  /\ narrationCurrentPage' = StorePage(p).narrationCurrentPage
  /\ forceRender' = IF StorePage(p).pageNum # pageNum THEN forceRender + 1
                    ELSE forceRender
  /\ lastCall' = [op |-> "setPageNum", before |-> StoreState]
  /\ UNCHANGED <<pdfDoc, pageCount, isNarrating, isNarrationPaused, messages,
                 storeFrame>>

setPageCount(n) ==
  /\ pageCount' = n
  /\ lastCall' = [op |-> "setPageCount", before |-> StoreState]
  /\ UNCHANGED <<pdfDoc, pageNum, forceRender, isNarrating, isNarrationPaused,
                 narrationCurrentPage, messages, storeFrame>>

\* nextPage without the check of the pause
nextPageIgnoringPause ==
  /\ pageNum < pageCount => forceRender < MaxRenders
  /\ IF pageNum >= pageCount
     THEN UNCHANGED <<pageNum, forceRender, narrationCurrentPage>>
     ELSE /\ pageNum' = pageNum + 1
          /\ forceRender' = forceRender + 1
          /\ narrationCurrentPage' = IF isNarrating THEN pageNum + 1
                                     ELSE narrationCurrentPage
  /\ lastCall' = [op |-> "nextPage", before |-> StoreState]
  /\ UNCHANGED <<pdfDoc, pageCount, isNarrating, isNarrationPaused, messages,
                 storeFrame>>

nextPage ==
  /\ pageNum < pageCount => forceRender < MaxRenders
  /\ IF pageNum >= pageCount
     THEN UNCHANGED <<pageNum, forceRender, narrationCurrentPage>>
     ELSE /\ pageNum' = pageNum + 1
          /\ forceRender' = forceRender + 1
          /\ narrationCurrentPage' = IF isNarrating /\ ~isNarrationPaused
                                     THEN pageNum + 1 ELSE narrationCurrentPage
  /\ lastCall' = [op |-> "nextPage", before |-> StoreState]
  /\ UNCHANGED <<pdfDoc, pageCount, isNarrating, isNarrationPaused, messages,
                 storeFrame>>

prevPage ==
  /\ pageNum > 1 => forceRender < MaxRenders
  /\ IF pageNum <= 1
     THEN UNCHANGED <<pageNum, forceRender, narrationCurrentPage>>
     ELSE /\ pageNum' = pageNum - 1
          /\ forceRender' = forceRender + 1
          /\ narrationCurrentPage' = IF isNarrating /\ ~isNarrationPaused
                                     THEN pageNum - 1 ELSE narrationCurrentPage
  /\ lastCall' = [op |-> "prevPage", before |-> StoreState]
  /\ UNCHANGED <<pdfDoc, pageCount, isNarrating, isNarrationPaused, messages,
                 storeFrame>>

setIsNarrating(b) ==
  /\ isNarrating' = b
  /\ lastCall' = [op |-> "setIsNarrating", before |-> StoreState]
  /\ UNCHANGED <<pdfDoc, pageNum, pageCount, forceRender, isNarrationPaused,
                 narrationCurrentPage, messages, storeFrame>>

setIsNarrationPaused(b) ==
  /\ isNarrationPaused' = b
  /\ lastCall' = [op |-> "setIsNarrationPaused", before |-> StoreState]
  /\ UNCHANGED <<pdfDoc, pageNum, pageCount, forceRender, isNarrating,
                 narrationCurrentPage, messages, storeFrame>>

msgFrame == <<pdfDoc, pageNum, pageCount, forceRender, isNarrating, isNarrationPaused,
              narrationCurrentPage, storeFrame>>

\* addMessage; handleRealtimeEvent calls it with isStreaming = true for each
\* 'response.text.delta'
addMessage(text, type, streaming) ==
  LET n == Len(messages)
      same == n > 0 /\ messages[n].type = type
  IN /\ IF n > 0 /\ messages[n].text = text
        THEN UNCHANGED messages
        ELSE IF streaming /\ same
             THEN /\ Len(messages[n].text) + Len(text) <= MaxText
                  /\ messages' = [messages EXCEPT ![n].text = @ \o text]
             ELSE /\ n < MaxMessages
                  /\ messages' = Append(messages, [text |-> text, type |-> type])
     /\ lastCall' = [op |-> "addMessage", text |-> text, type |-> type,
                     isStreaming |-> streaming, before |-> StoreState]
     /\ UNCHANGED msgFrame

clearMessages ==
  /\ messages' = <<>>
  /\ lastCall' = [op |-> "clearMessages", before |-> StoreState]
  /\ UNCHANGED msgFrame

(***************************************************************************)
(* AudioRecorder's press-and-hold recording with the asynchronous start of *)
(* useRealtimeVoiceChat.startRecording; the socket stays connected and the *)
(* session, once created, exists.                                          *)
(***************************************************************************)
recFrame == <<isNarrating, narrationCurrentPage, pageNum, pageCount, isProcessingPage,
              rvcVars, pdfDoc, startNarrationTimer, backupTimer, emitted, viewerVars,
              mimeVars, uasVars, regVars, pageVars, docVars, advVars>>

\* handleRecordButtonDown / the space key: startRecordingHandler up to its first
\* await (startSession, clearAudioBuffer, startRecording)
RecordButtonDown ==
  /\ ~buttonDown
  /\ (isRecordingRef \/ isProcessing) \/ pendingStarts + liveStreams < MaxRequests
  /\ buttonDown' = TRUE
  /\ IF isRecordingRef \/ isProcessing
     THEN UNCHANGED <<pendingStarts, wasNarratingRef, isNarrationPaused, isPlayingAudio>>
     ELSE /\ pendingStarts' = pendingStarts + 1
          /\ LET wasNarrating == isNarrating /\ ~isNarrationPaused /\ isPlayingAudio
             IN /\ wasNarratingRef' = wasNarrating
                /\ IF wasNarrating THEN PauseAudio
                   ELSE UNCHANGED <<isNarrationPaused, isPlayingAudio>>
  /\ UNCHANGED <<svcVars, histVars, ingVars, isRecording, isProcessing, error,
                 isRecordingRef, renderedRecording, audioStreamRef, liveStreams,
                 createEmitted, createWhileProcessing, recFrame>>

\* the rest of startRecordingHandler once its awaits settle; ok: getUserMedia
\* and the worklet resolve, startRecording stores the stream and returns true;
\* otherwise its catch calls stopRecording() and the handler resumes narration
StartRecordingSettles(ok) ==
  /\ pendingStarts > 0
  /\ pendingStarts' = pendingStarts - 1
  /\ IF ok
     THEN /\ error' = FALSE
          /\ liveStreams' = liveStreams + 1
          /\ audioStreamRef' = TRUE
          /\ isRecording' = TRUE
          /\ isRecordingRef' = TRUE
          /\ UNCHANGED <<wasNarratingRef, isNarrationPaused, isPlayingAudio>>
     ELSE /\ error' = TRUE
          /\ liveStreams' = IF audioStreamRef THEN liveStreams - 1 ELSE liveStreams
          /\ audioStreamRef' = FALSE
          /\ isRecording' = FALSE
          /\ wasNarratingRef' = FALSE
          /\ IF wasNarratingRef THEN ResumeAudio
             ELSE UNCHANGED <<isNarrationPaused, isPlayingAudio>>
          /\ UNCHANGED isRecordingRef
  /\ UNCHANGED <<svcVars, histVars, ingVars, isProcessing, buttonDown, renderedRecording,
                 createEmitted, createWhileProcessing, recFrame>>

\* the effect that copies the hook's isRecording into isRecordingRef.current,
\* run after a render in which isRecording changed
RecordingSyncEffect ==
  /\ renderedRecording # isRecording
  /\ renderedRecording' = isRecording
  /\ isRecordingRef' = isRecording
  /\ UNCHANGED <<svcVars, histVars, ingVars, isRecording, isProcessing, isNarrationPaused,
                 isPlayingAudio, wasNarratingRef, error, buttonDown, pendingStarts,
                 audioStreamRef, liveStreams, createEmitted, createWhileProcessing,
                 recFrame>>

\* handleRecordButtonUp: stopRecordingHandler as a whole. With the ref set it
\* calls stopRecording(), setIsProcessing(true), commitAudioBuffer() and
\* createResponse(); createResponse reads the store's isProcessing, now true,
\* sets its error and returns false, and the handler emits 'create-response'
\* itself
RecordButtonUp ==
  /\ buttonDown
  /\ isRecordingRef => createEmitted < MaxRequests
  /\ buttonDown' = FALSE
  /\ IF ~isRecordingRef
     THEN UNCHANGED <<isRecordingRef, audioStreamRef, liveStreams, isRecording,
                      isProcessing, error, createEmitted, createWhileProcessing>>
     ELSE /\ isRecordingRef' = FALSE
          /\ liveStreams' = IF audioStreamRef THEN liveStreams - 1 ELSE liveStreams
          /\ audioStreamRef' = FALSE
          /\ isRecording' = FALSE
          /\ isProcessing' = TRUE
          /\ error' = TRUE
          /\ createEmitted' = createEmitted + 1
          /\ createWhileProcessing' = TRUE
  /\ ClickOnly
  /\ UNCHANGED <<isNarrationPaused, isPlayingAudio, wasNarratingRef, pendingStarts,
                 renderedRecording, recFrame>>

(***************************************************************************)
(* useSocket.ts: the module-level socket, createSocketConnection and       *)
(* setupEventHandlers as the instances of the hook call them.              *)
(***************************************************************************)
\* the events setupEventHandlers removes before it registers
OffList == {"page-summary", "page-audio-response", "audio-response", "go-to-page",
            "function-call", "get-current-page-number", "function-call-result",
            "audio-state-change"}
\* the events it registers
OnList == OffList \cup {"content-part-audio", "realtime-event"}

\* socket.off(name) for the list, then socket.on(name, handler) for each event
SetupEventHandlers(l) ==
  [e \in OnList |-> (IF e \in OffList THEN 0 ELSE l[e]) + 1]

\* the handlers createSocketConnection registers on a new socket, of the
\* events setupEventHandlers knows: 'audio-response'
NewSocketListeners == [e \in OnList |-> IF e = "audio-response" THEN 1 ELSE 0]

Hooks == 1..MaxHooks

regFrame == <<histVars, storeVars, rvcVars, pdfDoc, startNarrationTimer, backupTimer,
              emitted, wasNarratingRef, viewerVars, error, mimeVars, uasVars, recVars,
              pageVars, docVars, advVars>>

\* createSocketConnection as instance i runs it; ready: the instances'
\* socketReady values when it is called
CreateSocketConnection(i, ready) ==
  CASE socketState = "connected" ->
         /\ socketReady' = [ready EXCEPT ![i] = TRUE]
         /\ listeners' = SetupEventHandlers(listeners)
         /\ UNCHANGED <<socketState, owner>>
    [] socketState = "connecting" ->
         \* globalSocket.connect(); the socket is not connected when it returns
         /\ socketReady' = ready
         /\ UNCHANGED <<socketState, listeners, owner>>
    [] OTHER ->
         /\ socketState' = "connecting"
         /\ listeners' = NewSocketListeners
         /\ owner' = i
         /\ socketReady' = ready

\* a component that uses the hook mounts: useState(globalSocket connected) and
\* the first run of the connection effect
MountUseSocket(i) ==
  /\ i \notin mounted
  /\ socketState = "connected" => listeners["realtime-event"] < MaxHandlers
  /\ mounted' = mounted \cup {i}
  /\ renderedReady' = [renderedReady EXCEPT ![i] = (socketState = "connected")]
  /\ CreateSocketConnection(i, [socketReady EXCEPT ![i] = (socketState = "connected")])
  /\ UNCHANGED <<svcVars, ingVars, regFrame>>

\* the socket's 'connect' event: setSocketReady(true) of the creating instance
\* and setupEventHandlers(socket)
SocketConnect ==
  /\ socketState = "connecting"
  /\ listeners["realtime-event"] < MaxHandlers
  /\ socketState' = "connected"
  /\ socketReady' = [socketReady EXCEPT ![owner] = TRUE]
  /\ listeners' = SetupEventHandlers(listeners)
  /\ UNCHANGED <<owner, mounted, renderedReady, svcVars, ingVars, regFrame>>

\* the socket's 'disconnect' event; socket.io then reconnects by itself
SocketDisconnect ==
  /\ socketState = "connected"
  /\ socketState' = "connecting"
  /\ socketReady' = [socketReady EXCEPT ![owner] = FALSE]
  /\ UNCHANGED <<listeners, owner, mounted, renderedReady, svcVars, ingVars, regFrame>>

\* socketReady is a dependency of the connection effect: after a render with
\* a changed value the effect runs again and calls createSocketConnection
ConnectionEffect(i) ==
  /\ i \in mounted
  /\ renderedReady[i] # socketReady[i]
  /\ socketState = "connected" => listeners["realtime-event"] < MaxHandlers
  /\ renderedReady' = [renderedReady EXCEPT ![i] = socketReady[i]]
  /\ CreateSocketConnection(i, socketReady)
  /\ UNCHANGED <<mounted, svcVars, ingVars, regFrame>>

\* checkConnectionInterval of instance i: the closure's socketReady against
\* the socket's connected flag
CheckConnection(i) ==
  /\ i \in mounted
  /\ renderedReady[i] = socketReady[i]
  /\ socketState # "none"
  /\ socketReady[i] # (socketState = "connected")
  /\ socketState = "connected" => listeners["realtime-event"] < MaxHandlers
  /\ socketReady' = [socketReady EXCEPT ![i] = (socketState = "connected")]
  /\ listeners' = IF socketState = "connected" THEN SetupEventHandlers(listeners)
                  ELSE listeners
  /\ UNCHANGED <<socketState, owner, mounted, renderedReady, svcVars, ingVars, regFrame>>

\* one inbound 'realtime-event' with a string delta: every registered handler
\* runs and calls addAudioChunk
RealtimeEventDelta ==
  /\ socketState = "connected"
  /\ nextChunk <= MaxChunks
  /\ LET chunk == [id |-> nextChunk, len |-> 12, sig |-> "none"]
     IN window' = window \o [k \in 1..listeners["realtime-event"] |-> chunk]
  /\ isPlayingAudio' = (isPlayingAudio \/ listeners["realtime-event"] > 0)
  /\ nextChunk' = nextChunk + 1
  /\ quiet' = FALSE
  /\ lastStop' = NoStop
  /\ UNCHANGED <<queueVars, playbackState, isProcessingComplete, hooks, gesture, playHist,
                 stopAt, conv, narrVars, isProcessing, isProcessingPage, rvcVars, navVars>>

\* the audio of a requested narration: a delta of the 'realtime-event' stream
NarrationDelta(sig) ==
  /\ emitted > 0
  /\ DeltaString(12, sig)

\* the end of the narration stream
NarrationDone ==
  /\ emitted > 0
  /\ StreamDone

(***************************************************************************)
(* useSocket.ts 'page-audio-response': the page's audio and the timers     *)
(* that advance the narration to the next page.                            *)
(***************************************************************************)
advFrame == <<rvcVars, isRecording, isProcessing, pdfDoc, startNarrationTimer,
              backupTimer, wasNarratingRef, viewerVars, hookVars>>

\* handlePageAudioResponse up to the start of the conversion; the response is
\* for the page whose narration was requested
PageAudioResponse(bytes) ==
  /\ emitted > 0
  /\ nextChunk <= MaxChunks
  /\ IF bytes = 0
     THEN /\ isProcessingPage' = FALSE
          /\ UNCHANGED <<pageConv, nextChunk>>
     ELSE /\ pageConv' = Append(pageConv, [id |-> nextChunk, len |-> B64Len(bytes),
                                           sig |-> "none", page |-> narrationCurrentPage])
          /\ nextChunk' = nextChunk + 1
          /\ UNCHANGED isProcessingPage
  /\ quiet' = FALSE
  /\ lastStop' = NoStop
  /\ UNCHANGED <<svcVars, playHist, stopAt, conv, narrVars, isPlayingAudio, emitted,
                 autoTimers, autoAdvanceTimeoutRef, advanceRequests, advFrame>>

\* the conversion resolves: addAudioChunk, setIsPlayingAudio(true) and a new
\* 5000 ms timer, which replaces the one in the ref without clearing it
PageConvDone ==
  /\ pageConv # <<>>
  /\ LET c == Head(pageConv)
     IN /\ HookAddAudioChunk([id |-> c.id, len |-> c.len, sig |-> c.sig])
        /\ autoTimers' = autoTimers \cup {[id |-> c.id, page |-> c.page]}
        /\ autoAdvanceTimeoutRef' = c.id
  /\ pageConv' = Tail(pageConv)
  /\ isPlayingAudio' = TRUE
  /\ UNCHANGED <<queueVars, playbackState, isProcessingComplete, hooks, gesture,
                 histVars, ingVars, narrVars, isProcessingPage, emitted, advanceRequests,
                 advFrame>>

\* an autoAdvanceTimeout fires
AutoAdvanceFire(t) ==
  /\ t \in autoTimers
  /\ autoTimers' = autoTimers \ {t}
  /\ IF isNarrating /\ ~isNarrationPaused
     THEN IF t.page + 1 <= pageCount
          THEN /\ narrationCurrentPage' = t.page + 1
               /\ pageNum' = StorePage(t.page + 1).pageNum
               /\ advanceRequests' = advanceRequests \cup {t.page + 1}
               /\ UNCHANGED <<isNarrating, svcVars>>
          ELSE /\ isNarrating' = FALSE
               /\ SvcComplete
               /\ UNCHANGED <<narrationCurrentPage, pageNum, advanceRequests>>
     ELSE UNCHANGED <<isNarrating, narrationCurrentPage, pageNum, advanceRequests,
                      svcVars>>
  /\ isProcessingPage' = FALSE
  /\ isPlayingAudio' = FALSE
  /\ UNCHANGED <<histVars, ingVars, isNarrationPaused, pageCount, emitted, pageConv,
                 autoAdvanceTimeoutRef, advFrame>>

\* the 500 ms timer of an auto-advance: the request for the next page is
\* emitted on the socket directly
AdvanceRequestFire(p) ==
  /\ p \in advanceRequests
  /\ emitted < MaxRequests
  /\ advanceRequests' = advanceRequests \ {p}
  /\ emitted' = emitted + 1
  /\ UNCHANGED <<svcVars, histVars, ingVars, narrVars, isPlayingAudio, isProcessingPage,
                 pageConv, autoTimers, autoAdvanceTimeoutRef, advFrame>>

(***************************************************************************)
(* Initial state: the service as constructed, the store's initial values.  *)
(***************************************************************************)
\* everything but the byte array under detection
ProgramInit ==
  /\ window = <<>>
  /\ activeAudioElements = <<>>
  /\ playbackState = "idle"
  /\ isProcessingComplete = FALSE
  /\ nextElem = 1
  /\ playReq = {}
  /\ playing = {}
  /\ hooks = {}
  /\ gesture = FALSE
  /\ played = <<>>
  /\ endedChunks = {}
  /\ stopAt = 1
  /\ quiet = TRUE
  /\ lastStop = NoStop
  /\ nextChunk = 1
  /\ conv = <<>>
  /\ isRecording = FALSE
  /\ isProcessing = FALSE
  /\ isNarrating = FALSE
  /\ isNarrationPaused = FALSE
  /\ narrationCurrentPage = 1
  /\ isPlayingAudio = FALSE
  /\ pageNum = 1
  /\ pageCount = 0
  /\ isProcessingPage = FALSE
  /\ accumulatedChunks = <<>>
  /\ audioBufferChunks = <<>>
  /\ audioChunksProcessed = 0
  /\ isProcessingCompleteRef = FALSE
  /\ lastChunkTime = 0
  /\ bufferingTimeoutRef = FALSE
  /\ currentAudioRef = NoAudio
  /\ audioPlaybackQueue = <<>>
  /\ isStreaming = FALSE
  /\ renderedStreaming = FALSE
  /\ nextAudio = 1
  /\ rvcPlayReq = {}
  /\ rvcPlaying = {}
  /\ respPhase = "idle"
  /\ nextDelta = 1
  /\ irregularDeltas = 0
  /\ flushedInStream = FALSE
  /\ burst = 0
  /\ burstFlushes = {}
  /\ burstFresh = FALSE
  /\ pdfDoc = FALSE
  /\ startNarrationTimer = FALSE
  /\ backupTimer = "none"
  /\ emitted = 0
  /\ wasNarratingRef = FALSE
  /\ error = FALSE
  /\ hasAudioData = FALSE
  /\ renderedHasData = FALSE
  /\ uasStreaming = FALSE
  /\ uasError = "none"
  /\ gotData = FALSE
  /\ acceptedSinceReset = FALSE
  /\ pageConv = <<>>
  /\ autoTimers = {}
  /\ autoAdvanceTimeoutRef = 0
  /\ advanceRequests = {}
  /\ buttonDown = FALSE
  /\ pendingStarts = 0
  /\ isRecordingRef = FALSE
  /\ renderedRecording = FALSE
  /\ audioStreamRef = FALSE
  /\ liveStreams = 0
  /\ createEmitted = 0
  /\ createWhileProcessing = FALSE
  /\ socketState = "none"
  /\ listeners = [e \in OnList |-> 0]
  /\ owner = 1
  /\ mounted = {}
  /\ socketReady = [i \in Hooks |-> FALSE]
  /\ renderedReady = [i \in Hooks |-> FALSE]
  /\ lastNarratedPage = 0
  /\ renderedDeps = PageDeps
  /\ pageTimers = <<>>
  /\ forceRender = 0
  /\ messages = <<Welcome>>
  /\ lastCall = NoCall

Init ==
  /\ ProgramInit
  /\ audioData = <<>>
  /\ mimeType = "none"

SvcCallbacks ==
  \/ WindowFire
  \/ OnCanPlay
  \/ \E id \in 1..MaxElems : PlayResolved(id)
  \/ \E id \in 1..MaxElems : PlayBlocked(id)
  \/ UserClick
  \/ \E id \in 1..MaxElems : OnEnded(id)
  \/ \E i \in 1..MaxElems, demux \in BOOLEAN : OnError(i, demux)

NextASS ==
  \/ SvcCallbacks
  \/ \E len \in StringLens, sig \in Sigs : DeltaString(len, sig)
  \/ \E bytes \in ByteLens, sig \in Sigs : DeltaArray(bytes, sig)
  \/ ConvDone
  \/ StreamDone
  \/ StopAudio
  \/ StopPlayback

SpecASS == Init /\ [][NextASS]_vars

NextRVC ==
  \/ ResponseCreated
  \/ \E shape \in StringShapes \cup {"other"}, late \in BOOLEAN : AudioDelta(shape, late)
  \/ BufferingTimeout
  \/ AudioDone
  \/ ResponseDone
  \/ \E id \in 1..MaxDeltas : RvcPlayResolved(id)
  \/ \E id \in 1..MaxDeltas : RvcPlayRejected(id)
  \/ \E id \in 1..MaxDeltas : RvcOnEnded(id)
  \/ \E id \in 1..MaxDeltas : RvcOnError(id)
  \/ EffectCleanup

SpecRVC == Init /\ [][NextRVC]_vars

NextUAS ==
  \/ \E len \in StringLens : AudioChunk(len)
  \/ AudioStart
  \/ AudioEnd
  \/ AudioError
  \/ UasEffect
  \/ ResetAudio
  \/ UasStopAudio
  \/ WindowFire
  \/ \E id \in 1..MaxElems : PlayResolved(id)
  \/ \E id \in 1..MaxElems : PlayBlocked(id)
  \/ UserClick
  \/ \E id \in 1..MaxElems : OnEnded(id)

SpecUAS == Init /\ [][NextUAS]_vars

\* narration fed by 'page-audio-response', with its auto-advance
NextAdv ==
  \/ LoadPDF
  \/ StartNarration
  \/ StopNarration
  \/ \E bytes \in ByteLens \cup {0} : PageAudioResponse(bytes)
  \/ PageConvDone
  \/ \E id \in 1..MaxChunks, page \in 1..MaxPages :
       AutoAdvanceFire([id |-> id, page |-> page])
  \/ \E p \in 1..MaxPages : AdvanceRequestFire(p)
  \/ WindowFire
  \/ \E id \in 1..MaxElems : PlayResolved(id)
  \/ \E id \in 1..MaxElems : OnEnded(id)

SpecAdv == Init /\ [][NextAdv]_vars

\* the recorder with the response events of the hook
NextRec ==
  \/ RecordButtonDown
  \/ RecordButtonUp
  \/ \E ok \in BOOLEAN : StartRecordingSettles(ok)
  \/ RecordingSyncEffect
  \/ ResponseCreated
  \/ ResponseDone

SpecRec == Init /\ [][NextRec]_vars

\* the instances of useSocket on the shared socket, with the service
NextReg ==
  \/ \E i \in Hooks : MountUseSocket(i)
  \/ SocketConnect
  \/ SocketDisconnect
  \/ \E i \in Hooks : ConnectionEffect(i)
  \/ \E i \in Hooks : CheckConnection(i)
  \/ RealtimeEventDelta
  \/ WindowFire
  \/ \E id \in 1..MaxElems : PlayResolved(id)
  \/ \E id \in 1..MaxElems : PlayBlocked(id)
  \/ UserClick
  \/ \E id \in 1..MaxElems : OnEnded(id)

SpecReg == Init /\ [][NextReg]_vars

\* the PDFViewer's navigation with its page-change effects
NextPage ==
  \/ LoadPDF
  \/ StartNarration
  \/ StopNarration
  \/ HandleNextPage
  \/ HandlePrevPage
  \/ StartNarrationTimerFire
  \/ PageEffects
  \/ \E i \in 1..MaxTimers : PageTimerFire(i)
  \/ NarrationDone

SpecPage == Init /\ [][NextPage]_vars

\* the page actions of the store
NextStore ==
  \/ \E doc \in BOOLEAN : setPDFDoc(doc)
  \/ \E p \in 0..(MaxPages + 1) : setPageNum(p)
  \/ \E n \in 0..MaxPages : setPageCount(n)
  \/ nextPage
  \/ prevPage
  \/ \E b \in BOOLEAN : setIsNarrating(b)
  \/ \E b \in BOOLEAN : setIsNarrationPaused(b)

SpecStore == Init /\ [][NextStore]_vars

\* the transcript of the store
NextMsg ==
  \/ \E text \in Texts, type \in Types, streaming \in BOOLEAN :
       addMessage(text, type, streaming)
  \/ clearMessages

SpecMsg == Init /\ [][NextMsg]_vars

\* the hook with the stream's 'error' events
NextRVCErr ==
  \/ NextRVC
  \/ ErrorEvent

SpecRVCErr == Init /\ [][NextRVCErr]_vars

NextNav ==
  \/ LoadPDF
  \/ \E b \in BOOLEAN : SetIsRecording(b)
  \/ \E b \in BOOLEAN : SetIsProcessing(b)
  \/ \E ok \in BOOLEAN : StartRecordingHandler(ok)
  \/ StartNarration
  \/ \E textEmpty \in BOOLEAN : StartNarrationApp(textEmpty)
  \/ StartNarrationTimerFire
  \/ BackupTimerFire
  \/ StopNarration
  \/ HandleNextPage
  \/ HandlePrevPage
  \/ \E sig \in Sigs : NarrationDelta(sig)
  \/ NarrationDone
  \/ WindowFire
  \/ \E id \in 1..MaxElems : PlayResolved(id)
  \/ \E id \in 1..MaxElems : OnEnded(id)

SpecNav == Init /\ [][NextNav]_vars

(***************************************************************************)
(* detectAudioMimeType of useSocket.ts, applied to byte arrays whose first *)
(* four bytes are drawn from the bytes the signatures are made of.         *)
(***************************************************************************)
\* audioData[k] & mask, for a mask that keeps the high bits down to bit `low`
BitAndHigh(b, low) == (b \div low) * low

\* detectAudioMimeType
DetectAudioMimeType(data) ==
  IF Len(data) >= 4
  THEN IF data[1] = 26 /\ data[2] = 69 /\ data[3] = 223 /\ data[4] = 163
       THEN "audio/webm"
       ELSE IF data[1] = 82 /\ data[2] = 73 /\ data[3] = 70 /\ data[4] = 70
       THEN "audio/wav"
       ELSE IF \/ data[1] = 73 /\ data[2] = 68 /\ data[3] = 51
               \/ data[1] = 255 /\ BitAndHigh(data[2], 32) = 224
       THEN "audio/mpeg"
       ELSE IF data[1] = 79 /\ data[2] = 103 /\ data[3] = 103 /\ data[4] = 83
       THEN "audio/ogg"
       ELSE IF data[1] = 255 /\ BitAndHigh(data[2], 16) = 240
       THEN "audio/aac"
       ELSE IF data[1] = 102 /\ data[2] = 76 /\ data[3] = 97 /\ data[4] = 67
       THEN "audio/flac"
       ELSE "audio/mpeg"
  ELSE "audio/mpeg"

\* the bytes tried at each of the first four positions: those of the
\* signatures (1A 45 DF A3, 52 49 46 46, 49 44 33, FF E3, FF F1, 4F 67 67 53,
\* 66 4C 61 43) and a zero
HeaderBytes ==
  <<{26, 82, 73, 255, 79, 102, 0},
    {69, 73, 68, 227, 241, 103, 76, 0},
    {223, 70, 51, 103, 97, 0},
    {163, 70, 83, 67, 0}>>

\* byte arrays of up to MaxPayload bytes; the bytes after the fourth are zero
Headers ==
  {<<a, b, c, d>> : a \in HeaderBytes[1], b \in HeaderBytes[2],
                    c \in HeaderBytes[3], d \in HeaderBytes[4]}

Payloads ==
  {[k \in 1..n |-> IF k <= 4 THEN h[k] ELSE 0] : h \in Headers, n \in 0..MaxPayload}

InitMime ==
  /\ ProgramInit
  /\ audioData \in Payloads
  /\ mimeType = "none"

\* processBinaryAudioData's call of detectAudioMimeType
DetectMime ==
  /\ mimeType = "none"
  /\ mimeType' = DetectAudioMimeType(audioData)
  /\ UNCHANGED <<svcVars, histVars, ingVars, storeVars, rvcVars, pdfDoc,
                 startNarrationTimer, backupTimer, emitted, wasNarratingRef, viewerVars,
                 error,
                 audioData, uasVars, appVars, advVars>>

NextMime == DetectMime

SpecMime == InitMime /\ [][NextMime]_vars

(***************************************************************************)
(* Properties of the useSocket / AudioStreamService pipeline (SpecASS).    *)
(***************************************************************************)
HeadIds == IF activeAudioElements = <<>> THEN {} ELSE {activeAudioElements[1].id}

\* C1 (order preservation): the segments start to sound in the order in which
\* their chunk events arrived, whatever the shapes of the chunks and the batch
\* boundaries: the arrival numbers in `played` never decrease.
C1_OrderPreserved ==
  \A i, j \in DOMAIN played : i < j => played[i] <= played[j]

Drained == playbackState = "idle" /\ isProcessingComplete
C3_DrainOnlyWhenEmpty ==
  [][(~Drained /\ Drained' /\ stopAt' = stopAt)
       => (window' = <<>> /\ conv' = <<>> /\ activeAudioElements' = <<>>)]_vars

\* C6 (segment failure): when the active segment, an original rendition that is
\* not WAV, reports a decode error, a WAV rendition of the same chunk is queued
\* for the retry, and the state does not become 'error'.
C6_RetriedUnderWav ==
  [][(/\ activeAudioElements # <<>>
      /\ ~activeAudioElements[1].rec
      /\ activeAudioElements[1].fmt # "audio/wav"
      /\ OnError(1, TRUE))
       => (/\ \E i \in DOMAIN activeAudioElements' :
                /\ activeAudioElements'[i].chunk = activeAudioElements[1].chunk
                /\ activeAudioElements'[i].fmt = "audio/wav"
           /\ playbackState' # "error")]_vars

\* C7 (idempotent reset): from a reset until the next event from outside the
\* service stays in the idle state: empty queue, nothing sounding, completion
\* flag clear; nothing left behind by the reset changes that.
C7_ResetStaysIdle ==
  quiet => /\ activeAudioElements = <<>>
           /\ playing = {}
           /\ playbackState = "idle"
           /\ ~isProcessingComplete

\* C16 (segment end transitions): when a segment ends, the next queued segment
\* is asked to play; with nothing queued the state becomes 'buffering' while
\* the completion has not been signalled and 'idle' (drained) when it has.
C16_EndTransitions ==
  [][(\E id \in 1..MaxElems : OnEnded(id))
       => /\ activeAudioElements' # <<>> => activeAudioElements'[1].id \in playReq'
          /\ (activeAudioElements' = <<>> /\ ~isProcessingComplete)
               => playbackState' = "buffering"
          /\ (activeAudioElements' = <<>> /\ isProcessingComplete)
               => playbackState' = "idle"]_vars

\* C17 (stop): a stop() call leaves the queue empty, no element sounding or
\* asked to play and the state idle, and leaves the completion flag as it was:
\* a stream that was complete when stop() was called is complete afterwards.
C17_StopKeepsComplete ==
  /\ [][StopPlayback
          => /\ activeAudioElements' = <<>>
             /\ playing' = {} /\ playReq' = {}
             /\ playbackState' = "idle"
             /\ isProcessingComplete' = isProcessingComplete]_vars
  /\ []((lastStop.kind = "stop" /\ lastStop.complete) => isProcessingComplete)

\* stop() was called on a complete stream while an element sounded
C17_Witness ==
  /\ lastStop = [kind |-> "stop", complete |-> TRUE, active |-> TRUE]
  /\ activeAudioElements = <<>>
  /\ playing = {}
  /\ playbackState = "idle"
  /\ isProcessingComplete

C23_BlockedSegmentHeld ==
  /\ [][\A id \in 1..MaxElems :
          PlayBlocked(id) => /\ id \in hooks'
                             /\ activeAudioElements' = activeAudioElements
                             /\ playing' = playing
                             /\ playReq' = playReq \ {id}]_vars
  /\ [](\A id \in hooks \cap ElemIds(activeAudioElements) :
          /\ activeAudioElements[1].id = id
          /\ playing = {})
  /\ [][UserClick => /\ hooks \cap ElemIds(activeAudioElements) \subseteq playReq'
                     /\ activeAudioElements' = activeAudioElements
                     /\ hooks' = {}]_vars

\* a refused element is held at the head of the queue with its hook armed
C23_Witness ==
  /\ ~gesture
  /\ hooks # {}
  /\ hooks \subseteq HeadIds
  /\ playReq = {}
  /\ playing = {}
  /\ Len(activeAudioElements) > 1

\* C24 (completion by queue drain): the indication that the response audio has
\* finished, isPlayingAudio falling to false with the stream marked complete,
\* is produced only when no element of the response is queued or sounding.
C24_FinishedOnlyWhenDrained ==
  [][(isPlayingAudio /\ ~isPlayingAudio' /\ isProcessingComplete')
       => /\ activeAudioElements' = <<>>
          /\ playing' = {}]_vars

\* C26 (has-received-data flag): the hook's flag is true exactly when a chunk
\* was accepted since the last reset, and the end of a stream sets the
\* 'no audio data was received' error exactly when no chunk was accepted for
\* that stream.
C26_NoDataErrorIffNone ==
  /\ [](hasAudioData <=> acceptedSinceReset)
  /\ [][AudioEnd => /\ ~gotData => uasError' = "noData"
                    /\ gotData => uasError' = uasError]_vars

\* C27 (bounded error recovery): an element created by the format fallback
\* is not itself recovered again when it fails, it is dropped without any new
\* element; and when a failure leaves the queue empty on a completed stream
\* the state becomes idle.
C27_RecoveryTerminates ==
  /\ [][\A i \in 1..MaxElems, demux \in BOOLEAN :
          (/\ i \in DOMAIN activeAudioElements
           /\ activeAudioElements[i].rec
           /\ OnError(i, demux)) => nextElem' = nextElem]_vars
  /\ [][((\E i \in 1..MaxElems, demux \in BOOLEAN : OnError(i, demux))
          /\ isProcessingComplete /\ activeAudioElements' = <<>>)
         => playbackState' = "idle"]_vars

\* C8 (cancellation): no chunk accepted before the last stop()/reset() is
\* enqueued after it: every queued element's chunk arrived after that call.
C8_NothingSurvivesStop ==
  \A i \in DOMAIN activeAudioElements : activeAudioElements[i].chunk >= stopAt

(***************************************************************************)
(* Properties of the useRealtimeVoiceChat pipeline (SpecRVC).              *)
(***************************************************************************)
\* the hook's elements that are current or queued
RvcAudios(cur, que) == {cur} \cup {que[i] : i \in DOMAIN que}

AcceptedDelta == \E shape \in StringShapes, late \in BOOLEAN : AudioDelta(shape, late)

\* the hook's queue plays at most one element at a time
RvcAtMostOneActive ==
  /\ Cardinality(rvcPlaying) <= 1
  /\ rvcPlaying \cup rvcPlayReq \subseteq {currentAudioRef.id}

C10_FirstBatchPerStream ==
  [][/\ (~flushedInStream /\ Len(accumulatedChunks) = 2 /\ AcceptedDelta)
          => accumulatedChunks' = <<>>
     /\ (flushedInStream /\ Len(accumulatedChunks) \in {2, 3}
           /\ \E shape \in StringShapes : AudioDelta(shape, FALSE))
          => accumulatedChunks' # <<>>]_vars

\* the chunks held anywhere in the hook: accumulated, buffered, or inside an
\* element that is current or queued
RvcChunks ==
  {accumulatedChunks[i] : i \in DOMAIN accumulatedChunks}
    \cup {audioBufferChunks[i] : i \in DOMAIN audioBufferChunks}
    \cup UNION {{a.chunks[i] : i \in DOMAIN a.chunks} :
                  a \in RvcAudios(currentAudioRef, audioPlaybackQueue)}

\* C11 (undersized-chunk rejection): a chunk whose payload is shorter than the
\* minimum viable size is dropped at ingestion: it is never accumulated towards
\* a flush threshold and never becomes part of a segment.
C11_UndersizedDropped ==
  /\ \A c \in RvcChunks : c.len >= MIN_CHUNK_LEN
  /\ \A i \in DOMAIN window : window[i].len >= MIN_CHUNK_LEN

\* C12 (timer flush of a partial buffer): when the flush timer fires, the
\* pending chunks are flushed together as one element in their arrival order;
\* pending chunks always have the timer armed; and every accepted chunk is
\* flushed: a chunk leaves the accumulation buffer only into an element.
C12_TimerFlushesPending ==
  /\ [](accumulatedChunks # <<>> => bufferingTimeoutRef)
  /\ [][/\ (BufferingTimeout /\ accumulatedChunks # <<>>)
            => /\ accumulatedChunks' = <<>>
               /\ [id |-> nextAudio, chunks |-> accumulatedChunks]
                    \in RvcAudios(currentAudioRef', audioPlaybackQueue')
        /\ \A i \in DOMAIN accumulatedChunks : accumulatedChunks[i] \in RvcChunks']_vars

\* the chunks inside the elements that are current or queued
SegmentChunks ==
  UNION {{a.chunks[i] : i \in DOMAIN a.chunks} :
           a \in RvcAudios(currentAudioRef, audioPlaybackQueue)}

\* C13 (completion handling): the step of a completion signal leaves no flush
\* timer armed and the accumulation buffer empty, has put every chunk that was
\* pending into an element of the playback queue, and leaves the completion
\* flag set.
C13_CompletionFlushesAll ==
  [][(AudioDone \/ ResponseDone)
       => /\ ~bufferingTimeoutRef'
          /\ accumulatedChunks' = <<>>
          /\ audioBufferChunks' = <<>>
          /\ isProcessingCompleteRef'
          /\ \A i \in DOMAIN accumulatedChunks : accumulatedChunks[i] \in SegmentChunks']_vars

\* the elements of the hook in the order of their creation, and the chunks in
\* them in the order of the join
RvcElements == RvcAudios(currentAudioRef, audioPlaybackQueue) \ {NoAudio}

\* C14 (buffer flush atomicity): a flush (by the timer, by a threshold on a
\* delta, or by a completion signal) empties the accumulation buffer and puts
\* all of the pending chunks, in their order, into one element of the playback
\* queue in the same step; no chunk is in two elements, and elements created
\* later hold chunks accumulated later.
C14_FlushAtomic ==
  /\ [](\A a, b \in RvcElements :
          /\ \A i, j \in DOMAIN a.chunks : i < j => a.chunks[i].id < a.chunks[j].id
          /\ a.id < b.id => \A i \in DOMAIN a.chunks, j \in DOMAIN b.chunks :
                                a.chunks[i].id < b.chunks[j].id)
  /\ [][/\ ((BufferingTimeout \/ AudioDone \/ ResponseDone) /\ accumulatedChunks # <<>>)
            => /\ accumulatedChunks' = <<>>
               /\ audioBufferChunks' = <<>>
               /\ [id |-> nextAudio, chunks |-> accumulatedChunks]
                    \in RvcAudios(currentAudioRef', audioPlaybackQueue')
        /\ \A shape \in StringShapes :
             ((\E late \in BOOLEAN : AudioDelta(shape, late)) /\ accumulatedChunks' = <<>>)
               => /\ audioBufferChunks' = <<>>
                  /\ [id |-> nextAudio,
                      chunks |-> Append(accumulatedChunks, DeltaChunk(shape))]
                       \in RvcAudios(currentAudioRef', audioPlaybackQueue')]_vars

\* C15 (enqueue): a step that creates a segment appends it to the tail of the
\* queue; when no segment is active, the oldest segment not yet started (the
\* head of the queue, or the new one when the queue is empty) becomes the
\* active one and is asked to play.
C15_EnqueuePromotesHead ==
  [][nextAudio' = nextAudio + 1
       => LET que == IF currentAudioRef # NoAudio \/ audioPlaybackQueue = <<>>
                     THEN audioPlaybackQueue ELSE Tail(audioPlaybackQueue)
              tail == IF currentAudioRef = NoAudio /\ audioPlaybackQueue = <<>>
                      THEN currentAudioRef' ELSE audioPlaybackQueue'[Len(audioPlaybackQueue')]
          IN /\ tail.id = nextAudio
             /\ currentAudioRef # NoAudio
                  => currentAudioRef' = currentAudioRef /\ audioPlaybackQueue' = Append(que, tail)
             /\ (currentAudioRef = NoAudio /\ audioPlaybackQueue # <<>>)
                  => /\ currentAudioRef' = Head(audioPlaybackQueue)
                     /\ currentAudioRef'.id \in rvcPlayReq'
                     /\ audioPlaybackQueue' = Append(que, tail)
             /\ (currentAudioRef = NoAudio /\ audioPlaybackQueue = <<>>)
                  => nextAudio \in rvcPlayReq' /\ audioPlaybackQueue' = <<>>]_vars

\* C21 (stream error handling): on an error event of the stream the playback
\* is force-stopped in that step (no current element, queue empty, nothing
\* sounding or asked to play, nothing pending in the buffers or on the timer),
\* the owner flags isStreaming and isProcessing are reset, and the error is
\* surfaced in the hook's error state.
C21_ErrorForcesStop ==
  [][ErrorEvent
       => /\ currentAudioRef' = NoAudio
          /\ audioPlaybackQueue' = <<>>
          /\ rvcPlaying' = {}
          /\ rvcPlayReq' = {}
          /\ accumulatedChunks' = <<>>
          /\ ~bufferingTimeoutRef'
          /\ ~isStreaming'
          /\ ~isProcessing'
          /\ error']_vars

(***************************************************************************)
(* Properties of narration and navigation (SpecNav).                       *)
(***************************************************************************)
NarrationAttempt ==
  \/ StartNarration
  \/ \E textEmpty \in BOOLEAN : StartNarrationApp(textEmpty)
  \/ StartNarrationTimerFire

\* C4 (owner exclusivity): an attempt to start page narration while a recording
\* is in progress is rejected without mutation: no request is emitted, the
\* playback queue is not stopped or reset, the narration flags stay as they are.
C4_RejectedWithoutMutation ==
  [][(isRecording /\ NarrationAttempt)
       => UNCHANGED <<emitted, isNarrating, isNarrationPaused, narrationCurrentPage,
                      activeAudioElements, playbackState, isProcessingComplete>>]_vars

\* C5 (navigation during narration): when the user turns the page while the
\* narration of the old page sounds, the old page's audio is stopped in that
\* step (queue empty, nothing sounding), the narration page becomes the new
\* page and the request for it is on its way.
C5_NavigationStopsAudio ==
  [][(isNarrating /\ ~isNarrationPaused /\ playing # {}
        /\ (HandleNextPage \/ HandlePrevPage))
       => /\ activeAudioElements' = <<>>
          /\ playing' = {}
          /\ narrationCurrentPage' = pageNum'
          /\ startNarrationTimer']_vars

\* C19 (recording start pauses narration): when the record button is pressed
\* while the page narration is on, not paused and sounding, and the recording
\* starts, the narration audio is halted and isNarrationPaused becomes true,
\* while isNarrating and the narration page stay as they were.
C19_RecordingPausesNarration ==
  [][(isNarrating /\ ~isNarrationPaused /\ isPlayingAudio /\ playing # {}
        /\ StartRecordingHandler(TRUE))
       => /\ playing' = {}
          /\ isNarrationPaused'
          /\ isNarrating'
          /\ narrationCurrentPage' = narrationCurrentPage]_vars

\* the narration is never in the paused state: pauseAudio is its only source
NarrationNeverPaused == ~isNarrationPaused

\* C22 (no automatic narration retry): a request goes out on the socket only
\* in a step of the caller, the press of a narrate button or the narration
\* start that follows a page turn; no timer of the client sends one.
C22_NoAutomaticRetry ==
  [][emitted' > emitted => NarrationAttempt]_vars

StartsWith(data, sig) ==
  /\ Len(data) >= Len(sig)
  /\ \A k \in DOMAIN sig : data[k] = sig[k]

\* C25 (format sniffing): the type returned for a byte array follows the
\* signature table on its first bytes: 1A 45 DF A3 WebM, 52 49 46 46 WAV,
\* 4F 67 67 53 Ogg, 'ID3' or FF Ex MP3, FF Fx AAC, 66 4C 61 43 FLAC, and
\* audio/mpeg for an array of fewer than 4 bytes or of no known signature.
C25_SignatureTable ==
  mimeType # "none" =>
    LET long == Len(audioData) >= 4
        webm == long /\ StartsWith(audioData, <<26, 69, 223, 163>>)
        wav == long /\ StartsWith(audioData, <<82, 73, 70, 70>>)
        ogg == long /\ StartsWith(audioData, <<79, 103, 103, 83>>)
        flac == long /\ StartsWith(audioData, <<102, 76, 97, 67>>)
        mp3 == long /\ (\/ StartsWith(audioData, <<73, 68, 51>>)
                        \/ audioData[1] = 255 /\ audioData[2] \div 16 = 14)
        aac == long /\ audioData[1] = 255 /\ audioData[2] \div 16 = 15
    IN /\ webm => mimeType = "audio/webm"
       /\ wav => mimeType = "audio/wav"
       /\ ogg => mimeType = "audio/ogg"
       /\ flac => mimeType = "audio/flac"
       /\ mp3 => mimeType = "audio/mpeg"
       /\ aac => mimeType = "audio/aac"
       /\ ~(webm \/ wav \/ ogg \/ flac \/ mp3 \/ aac) => mimeType = "audio/mpeg"

\* the same table with FF Fx left out: everything but the ADTS row
SniffedExceptAdts ==
  (mimeType # "none" /\ ~(Len(audioData) >= 4 /\ audioData[1] = 255
                           /\ audioData[2] \div 16 = 15))
    => C25_SignatureTable

\* C28 (stale stream isolation): a delta that arrives after stopAudio() has
\* ended the narration and before any new request, or after a page turn and
\* before the request for the new page has gone out, belongs to the old
\* page's stream: it is not taken into the window and queues nothing.
C28_StaleChunksDropped ==
  /\ [][((quiet /\ ~isNarrating) /\ \E sig \in Sigs : NarrationDelta(sig))
         => /\ window' = window
            /\ activeAudioElements' = activeAudioElements]_vars
  /\ [][(startNarrationTimer /\ \E sig \in Sigs : NarrationDelta(sig))
         => /\ window' = window
            /\ activeAudioElements' = activeAudioElements]_vars

AdvanceStep == \E t \in autoTimers : AutoAdvanceFire(t)

\* C29 (auto-advance waits for completion): the page changes by auto-advance
\* only when no element of the current page's audio is queued or sounding.
C29_AdvanceAfterPlayback ==
  [][(AdvanceStep /\ pageNum' # pageNum)
       => /\ activeAudioElements = <<>>
          /\ playing = {}]_vars

\* C30 (stopAudio cancels auto-advance): the timer of a response that was
\* received before the last stopAudio() changes neither the page nor the
\* narration state and schedules no request, whether it was armed before the
\* call or by a conversion that ended after it.
C30_StopCancelsAdvance ==
  [][\A t \in autoTimers :
       (t.id < stopAt /\ AutoAdvanceFire(t))
         => UNCHANGED <<pageNum, narrationCurrentPage, isNarrating, advanceRequests>>]_vars

\* C34: the recovery elements of a failed segment never make a chunk sound
\* again: no element starts to sound whose chunk has already had one of its
\* elements play to the end.
C34_PayloadPlayedOnce ==
  [][\A id \in 1..MaxElems :
       (id \in playReq /\ PlayResolved(id)) => ChunkOf(id) \notin endedChunks]_vars

\* C35: the completion flag does not leak across response streams: while a
\* stream that has already produced audio is open, before its own
\* response.audio.done or response.done, the end of an audio element never
\* reports the stream finished by clearing isStreaming or isPlayingAudio.
C35_CompletionDoesNotLeak ==
  [][\A id \in 1..MaxDeltas :
       (respPhase = "open" /\ flushedInStream /\ RvcOnEnded(id))
         => /\ ~(isStreaming /\ ~isStreaming')
            /\ ~(isPlayingAudio /\ ~isPlayingAudio')]_vars

(***************************************************************************)
(* Properties of the recorder (SpecRec).                                   *)
(***************************************************************************)
\* C32: once the record button is released and every pending start has
\* settled (no startRecordingHandler still awaiting, the sync effect run),
\* no recording is left running: no microphone stream is live and the
\* store's isRecording is false.
C32_ReleasedMeansStopped ==
  (~buttonDown /\ pendingStarts = 0 /\ renderedRecording = isRecording)
    => (liveStreams = 0 /\ ~isRecording)

\* C37: no 'create-response' request is emitted while the store's
\* isProcessing is true; stopping a recording does not get around the guard
\* of createResponse.
C37_NoOverlappingResponse ==
  [][createEmitted' > createEmitted => ~createWhileProcessing']_vars

(***************************************************************************)
(* Properties of the handler registration (SpecReg).                       *)
(***************************************************************************)
\* C33: after any number of setupEventHandlers calls every inbound event
\* name has at most one handler, exactly one once the socket has connected,
\* and one inbound audio chunk event puts exactly one segment into the
\* service's window.
C33_OneHandlerPerEvent ==
  /\ [](\A e \in OnList : listeners[e] <= 1)
  /\ [](socketState = "connected" => \A e \in OnList : listeners[e] = 1)
  /\ [][RealtimeEventDelta => Len(window') = Len(window) + 1]_vars

(***************************************************************************)
(* Properties of the page-change effects (SpecPage).                       *)
(***************************************************************************)
\* C36: a manual page navigation under unpaused narration leads to one
\* narration request for the new page: while the navigation handler's request
\* timer is pending, no page-change effect holds a request timer for that page.
C36_OneRequestPerNavigation ==
  (startNarrationTimer /\ isNarrating /\ ~isNarrationPaused)
    => \A i \in DOMAIN pageTimers : pageTimers[i].page # pageNum

(***************************************************************************)
(* Properties of the store (SpecStore, SpecMsg).                           *)
(***************************************************************************)
\* C38: after any sequence of setPageNum, nextPage, prevPage, setPageCount and
\* setPDFDoc the page is at least 1 and, when the page count is positive, at
\* most the page count.
C38_PageBounds ==
  pageNum >= 1 /\ (pageCount > 0 => pageNum <= pageCount)

\* C39: a setPageNum, nextPage or prevPage that changes the page sets
\* narrationCurrentPage to the new page iff narration is on and not paused and
\* otherwise leaves audioState alone, adds exactly 1 to forceRender and changes
\* nothing else; one that does not change the page leaves the whole store as
\* it was.
C39_NavigationFrame ==
  lastCall.op \in {"setPageNum", "nextPage", "prevPage"} =>
    LET b == lastCall.before
        s == StoreState
    IN IF s.pdfState.pageNum # b.pdfState.pageNum
       THEN /\ s.audioState =
                 IF b.audioState.isNarrating /\ ~b.audioState.isNarrationPaused
                 THEN [b.audioState EXCEPT !.narrationCurrentPage = s.pdfState.pageNum]
                 ELSE b.audioState
            /\ s.pdfState = [b.pdfState EXCEPT !.pageNum = s.pdfState.pageNum,
                                               !.forceRender = @ + 1]
            /\ s.messages = b.messages
       ELSE s = b

\* nextPage changed the page under unpaused narration, after an earlier
\* change of the page
C39_Witness ==
  /\ lastCall.op = "nextPage"
  /\ pageNum = lastCall.before.pdfState.pageNum + 1
  /\ isNarrating /\ ~isNarrationPaused
  /\ narrationCurrentPage = pageNum
  /\ forceRender > 1

\* C40: a streaming addMessage of the type of the last message creates no
\* message and appends its delta to the last message's text, so the text is
\* the concatenation of the deltas in arrival order; a non-streaming call or
\* a change of type appends exactly one new message.
C40_TranscriptAssembly ==
  lastCall.op = "addMessage" =>
    LET b == lastCall.before.messages
        n == Len(b)
    IN IF lastCall.isStreaming /\ n > 0 /\ b[n].type = lastCall.type
       THEN messages = [b EXCEPT ![n].text = @ \o lastCall.text]
       ELSE messages = Append(b, [text |-> lastCall.text, type |-> lastCall.type])

====
